---- MODULE Spec2Model ----
(***************************************************************************)
(* A model of scripts/get_summary_from_txt.py: the streaming, line by line *)
(* parse of headers.txt into fs_all, electrodes_all and the two anomaly    *)
(* lists; of process_stream of                                             *)
(* scripts/pre-preprocessing/01_find_edf_files_w_target_electrodes.py      *)
(* (SpecEdf); and of download_file of scripts/download_tuh_eeg.py          *)
(* (SpecDownload).                                                         *)
(*                                                                         *)
(* Text is modelled as a sequence of one-character strings, so that        *)
(* str.strip, str.upper and the word searches of the regular expressions   *)
(* are computed character by character.  A frequency is an integer number  *)
(* of quarter micro-hertz (250.0 Hz is 1000000000), so the tolerance 1e-6  *)
(* of floats_all_equal is 4; the frequencies of the model have no two      *)
(* values exactly 1e-6 apart, where the rounding of a float decides.       *)
(***************************************************************************)
EXTENDS Integers, Sequences, FiniteSets, TLC

\* ------------------------------------------------------------ bounds

\* The number of lines the input file holds at most.
MaxLines == 5

\* The length of the lists floats_all_equal is applied to in SpecFloats.
MaxFloats == 3

\* ------------------------------------------------------------ text

Lower == <<"a","b","c","d","e","f","g","h","i","j","k","l","m",
           "n","o","p","q","r","s","t","u","v","w","x","y","z">>

Capital == <<"A","B","C","D","E","F","G","H","I","J","K","L","M",
             "N","O","P","Q","R","S","T","U","V","W","X","Y","Z">>

Digit == {"0","1","2","3","4","5","6","7","8","9"}

IsSpace(c) == c \in {" ", "\t"}

IsCapital(c) == \E i \in 1..26 : Capital[i] = c

\* \w of the regular expressions
IsWordChar(c) == (\E i \in 1..26 : Lower[i] = c \/ Capital[i] = c) \/ c \in Digit \/ c = "_"

UpperChar(c) ==
    IF \E i \in 1..26 : Lower[i] = c
    THEN Capital[CHOOSE i \in 1..26 : Lower[i] = c]
    ELSE c

\* str.upper
upper(s) == [i \in 1..Len(s) |-> UpperChar(s[i])]

\* str.strip
strip(s) ==
    LET solid == {i \in 1..Len(s) : ~IsSpace(s[i])}
    IN  IF solid = {} THEN <<>>
        ELSE SubSeq(s, CHOOSE i \in solid : \A j \in solid : i <= j,
                       CHOOSE i \in solid : \A j \in solid : j <= i)

normalize_label_preserve_as_is(raw) == strip(raw)

normalize_label_preserve(raw) == upper(strip(raw))

\* A pattern is a sequence of capital letters and of SPACES, which stands
\* for \s+ ; the patterns are matched case-insensitively.
SPACES == "\\s+"

\* The positions at which a match of pat[j..] that starts at s[i] can end.
RECURSIVE MatchEnds(_, _, _, _)
MatchEnds(s, i, pat, j) ==
    IF j > Len(pat) THEN {i}
    ELSE IF pat[j] = SPACES
    THEN UNION { MatchEnds(s, k, pat, j + 1) :
                 k \in {k \in (i + 1)..(Len(s) + 1) : \A m \in i..(k - 1) : IsSpace(s[m])} }
    ELSE IF i <= Len(s) /\ UpperChar(s[i]) = pat[j]
    THEN MatchEnds(s, i + 1, pat, j + 1)
    ELSE {}

\* \b between s[p-1] and s[p]
WordBoundary(s, p) ==
    LET before == p > 1 /\ p - 1 <= Len(s) /\ IsWordChar(s[p - 1])
        after  == p >= 1 /\ p <= Len(s) /\ IsWordChar(s[p])
    IN  before # after

\* re.search(r'(?i)\b(?:p1|p2|...)\b', s)
SearchWords(pats, s) ==
    \E n \in 1..Len(pats) : \E i \in 1..(Len(s) + 1) :
        /\ WordBoundary(s, i)
        /\ \E e \in MatchEnds(s, i, pats[n], 1) : WordBoundary(s, e)

EEG_WORDS == << <<"E","E","G">>, <<"E","C","G">>, <<"E","K","G">> >>

EXCLUDE_KEYWORDS ==
    << <<"P","U","L","S","E">>,
       <<"P","U","L","S","E",SPACES,"R","A","T","E">>,
       <<"I","B","I">>,
       <<"B","U","R","S","T">>,
       <<"B","U","R","S","T","S">>,
       <<"S","U","P","P","R">>,
       <<"S","U","P","P","R","E","S","S","I","O","N">>,
       <<"R","E","S","P">>,
       <<"P","H","O","T","I","C">>,
       <<"D","C">>,
       <<"L","O","C">> >>

re_exclude_nothing(s) == FALSE

re_exclude(s) == SearchWords(EXCLUDE_KEYWORDS, s)

re_eeg(s) == SearchWords(EEG_WORDS, s)

\* re.search(r'[A-Z]', norm)
HasCapital(s) == \E i \in 1..Len(s) : IsCapital(s[i])


\* ------------------------------------------------------------ values

\* Python's None and a present value
None == <<>>
Some(x) == <<x>>

\* An insertion-ordered dict, as per_file_block6_channel_fs is iterated
\* (lines 199-205): a sequence of [fp, fs] items.
DictHas(d, k) == \E i \in 1..Len(d) : d[i].fp = k

DictGet(d, k) == d[CHOOSE i \in 1..Len(d) : d[i].fp = k].fs

DictPut(d, k, v) ==
    IF DictHas(d, k)
    THEN [i \in 1..Len(d) |-> IF d[i].fp = k THEN [fp |-> k, fs |-> v] ELSE d[i]]
    ELSE Append(d, [fp |-> k, fs |-> v])

\* A dict whose order is not observed (fs_all, per_file_labels, the Counter)
EmptyDict == [k \in {} |-> None]

Put_first_wins(d, k, v) ==
    IF k \in DOMAIN d THEN d ELSE [x \in DOMAIN d \cup {k} |-> v] @@ d

Put(d, k, v) == [x \in DOMAIN d \cup {k} |-> IF x = k THEN v ELSE d[x]]

SetDefault_unregistered(d, k, v) == d

SetDefault(d, k, v) == IF k \in DOMAIN d THEN d ELSE Put(d, k, v)

Increment_overwrite(c, k) == Put(c, k, 1)

\* Counter[k] += 1 on a counter that keeps no other key
Increment_drops_others(c, k) == [x \in {k} |-> IF k \in DOMAIN c THEN c[k] + 1 ELSE 1]

\* Counter[k] += 1
Increment(c, k) == Put(c, k, IF k \in DOMAIN c THEN c[k] + 1 ELSE 1)

\* ------------------------------------------------------------ helpers

TOL == 4

Abs(x) == IF x < 0 THEN -x ELSE x

floats_all_equal_neighbours(lst) ==
    \A i \in 1..(Len(lst) - 1) : ~(Abs(lst[i + 1] - lst[i]) > TOL)

floats_all_equal_last_only(lst) ==
    IF lst = <<>> THEN TRUE
    ELSE ~(Abs(lst[Len(lst)] - lst[1]) > TOL)

floats_all_equal(lst) ==
    IF lst = <<>> THEN TRUE
    ELSE \A i \in 1..Len(lst) : ~(Abs(lst[i] - lst[1]) > TOL)

\* any(v > 1 for v in Counter(processed).values())
HasRepeatedValue(processed) ==
    \E v \in {processed[i] : i \in 1..Len(processed)} :
        Cardinality({i \in 1..Len(processed) : processed[i] = v}) > 1

CheckLabels_uncounted(st, fp) ==
    LET processed == [i \in 1..Len(st.pending) |->
                         normalize_label_preserve(st.pending[i])]
        dup == HasRepeatedValue(processed)
    IN  [labels  |-> Put(st.labels, fp, processed),
         n       |-> st.n,
         lst     |-> IF dup THEN Append(st.lst, fp) ELSE st.lst,
         pending |-> <<>>]

\* The check the code makes at its three finalization places, on the state
\* st = [labels, n, lst, pending] of per_file_labels, ELECTRODES_NOT_UNIQUE,
\* ELECTRODES_NOT_UNIQUE_LIST and pending_chan_labels.
CheckLabels(st, fp) ==
    LET processed == [i \in 1..Len(st.pending) |->
                         normalize_label_preserve(st.pending[i])]
        dup == HasRepeatedValue(processed)
    IN  [labels  |-> Put(st.labels, fp, processed),
         n       |-> IF dup THEN st.n + 1 ELSE st.n,
         lst     |-> IF dup THEN Append(st.lst, fp) ELSE st.lst,
         pending |-> <<>>]


\* ------------------------------------------------------------ input

\* Frequencies, in quarter micro-hertz
Hz(x)       == x * 4000000
Hz100       == Hz(100)
Hz100_5e7   == Hz(100) + 2       \* 100.0000005
Hz100_01    == Hz(100) + 40000   \* 100.01
Hz100_8e7   == Hz(100) + 3       \* 100.00000075
Hz99_8e7    == Hz(100) - 3       \*  99.99999925
Hz250       == Hz(250)

\* Parenthetical label texts of channel lines
LabelFp1    == <<"E","E","G"," ","F","P","1","-","R","E","F">>
LabelLowO2  == <<" ","e","e","g"," ","o","2","-","r","e","f"," ">>
LabelEkg    == <<"E","C","G"," ","E","K","G","-","R","E","F">>
LabelResp   == <<"E","E","G"," ","R","E","S","P","-","R","E","F">>
LabelEmg    == <<"E","M","G","-","R","E","F">>
LabelEeg1   == <<"E","E","G","1","-","R","E","F">>

\* Bracketed tokens of the chan_labels section
TokFp1      == <<"F","p","1">>
TokFP1      == <<"F","P","1">>
TokFP1sp    == <<" ","F","P","1"," ">>
TokFP2      == <<"F","P","2">>
TokO2       == <<"O","2">>

FileA == "fileA.rec"
FileB == "fileB.rec"

\* What the regular expressions of lines 26-33 see in a line.  head tells
\* which of the anchored expressions matches the start of the line (at most
\* one can, and a channel line with a parenthetical matches
\* re_channel_fs_with_label before re_channel_fs); marker is
\* 'derived values' in low or 'per channel sample frequencies' in low;
\* brackets is re_bracket.findall on the line (on group(1) of a chan_labels
\* line).
Line(head, key, num, label, marker, brackets) ==
    [head |-> head, key |-> key, num |-> num, label |-> label,
     marker |-> marker, brackets |-> brackets]

FileLine(k)          == Line("file", k, 0, <<>>, FALSE, <<>>)
BlockLine(n, m)      == Line("block", "", n, <<>>, m, <<>>)
HdrLine(v, b)        == Line("hdr", "", v, <<>>, FALSE, b)
ChLabelLine(v, l, m) == Line("chlabel", "", v, l, m, <<>>)
ChanLine(v)          == Line("chan", "", v, <<>>, FALSE, <<>>)
ChanLabelsLine(b)    == Line("chanlabels", "", 0, <<>>, FALSE, b)
TransTypeLine        == Line("transtype", "", 0, <<>>, FALSE, <<>>)
TextLine(m, b)       == Line("text", "", 0, <<>>, m, b)

\* The lines an input file is made of
Lines ==
    { FileLine(FileA), FileLine(FileB),
      BlockLine(6, FALSE), BlockLine(5, FALSE),
      TextLine(TRUE, <<>>), TextLine(FALSE, <<TokFP1sp>>),
      HdrLine(Hz250, <<>>),
      ChLabelLine(Hz100, LabelFp1, FALSE),
      ChLabelLine(Hz100_5e7, LabelLowO2, FALSE),
      ChLabelLine(Hz100_01, LabelEkg, FALSE),
      ChLabelLine(Hz250, LabelResp, FALSE),
      ChLabelLine(Hz250, LabelEmg, TRUE),
      ChLabelLine(Hz100, LabelEeg1, FALSE),
      ChanLine(Hz250),
      ChanLabelsLine(<<TokFp1, TokFP1, TokO2>>),
      ChanLabelsLine(<<TokFP1, TokFP2>>),
      TransTypeLine }

\* ------------------------------------------------------------ state

VARIABLES
    pc,                          \* "open", "loop", "post", "done"
    fs_all,
    per_file_block6_channel_fs,
    per_file_labels,
    electrodes_all,
    FS_NOT_SAME,
    FS_NOT_SAME_LIST,
    ELECTRODES_NOT_UNIQUE,
    ELECTRODES_NOT_UNIQUE_LIST,
    current_fp,
    in_block6,
    collecting_chan_labels,
    pending_chan_labels,
    line,                        \* the line read last
    summary,
    \* what has been read, kept beside the program's state to state the
    \* properties: none of it is read by the program
    n_lines,                     \* lines read
    obs,                         \* per key: the record-start lines seen, and of the latest
                                 \* record of that key its chan_labels lines, bracketed tokens
                                 \* collected, header lines and qualifying frequencies
    deferred_list,               \* the duplicate check made once per record, at its boundary
    qual_lines,                  \* qualifying labeled channel lines read
    fs_appended,                 \* appends made to block-6 frequency lists
    \* SpecFloats: floats_all_equal applied to a list
    lst, result,
    \* SpecFile: the input file when its content is fixed before the run,
    \* <<>> when the lines are drawn as they are read
    file,
    \* SpecEdf: process_stream of 01_find_edf_files_w_target_electrodes.py
    current,                     \* None or the record being collected
    current_block,
    csv_rows,                    \* the rows of OUTPUT_CSV
    scanned,
    written,
    edf_lines,                   \* lines read by process_stream
    flushes,                     \* kept beside: per call of flush_and_write the record
                                 \* flushed and whether a row was added
    \* SpecDownload: download_file of download_tuh_eeg.py
    disk,                        \* the content of local_path and of local_path + ".part"
    response,                    \* the chunks of the response not yet iterated
    remote,                      \* kept beside: the chunks the server holds for file_url
    previous,                    \* kept beside: the content of local_path before the first call
    attempts,                    \* calls of download_file made for local_path
    \* SpecCrawl: crawl_index of download_tuh_eeg.py
    visited,                     \* the set of sanitized URLs crawl_index has been entered with
    frames,                      \* the calls of crawl_index in their loop over links, outermost
                                 \* first: current_url, links and the position in links
    current_url,                 \* None or the argument of the call being entered
    pages,                       \* the index pages the server holds, by path
    fetched,                     \* kept beside: per session.get of crawl_index the URL and
                                 \* whether it succeeded
    handled                      \* kept beside: the links crawled into or downloaded, as
                                 \* <<URL of the page, position>>

prog == <<pc, fs_all, per_file_block6_channel_fs, per_file_labels, electrodes_all,
          FS_NOT_SAME, FS_NOT_SAME_LIST, ELECTRODES_NOT_UNIQUE,
          ELECTRODES_NOT_UNIQUE_LIST, current_fp, in_block6,
          collecting_chan_labels, pending_chan_labels, summary>>

seen == <<n_lines, obs, deferred_list, qual_lines, fs_appended>>

edf == <<current, current_block, csv_rows, scanned, written, edf_lines, flushes>>

dl == <<disk, response, remote, previous, attempts>>

crawl == <<visited, frames, current_url, pages, fetched, handled>>

\* what the parser's actions never touch
other == <<file, edf, dl, crawl>>

vars == <<prog, line, seen, lst, result, other>>

\* The other scripts have not run
EdfIdle ==
    /\ current = <<>>
    /\ current_block = <<>>
    /\ csv_rows = <<>>
    /\ scanned = 0
    /\ written = 0
    /\ edf_lines = 0
    /\ flushes = <<>>

DownloadIdle ==
    /\ disk = <<>>
    /\ response = <<>>
    /\ remote = <<>>
    /\ previous = <<>>
    /\ attempts = 0

CrawlIdle ==
    /\ visited = {}
    /\ frames = <<>>
    /\ current_url = <<>>
    /\ pages = <<>>
    /\ fetched = <<>>
    /\ handled = {}

Init ==
    /\ pc = "open"
    /\ fs_all = EmptyDict
    /\ per_file_block6_channel_fs = <<>>
    /\ per_file_labels = EmptyDict
    /\ electrodes_all = EmptyDict
    /\ FS_NOT_SAME = 0
    /\ FS_NOT_SAME_LIST = <<>>
    /\ ELECTRODES_NOT_UNIQUE = 0
    /\ ELECTRODES_NOT_UNIQUE_LIST = <<>>
    /\ current_fp = None
    /\ in_block6 = FALSE
    /\ collecting_chan_labels = FALSE
    /\ pending_chan_labels = <<>>
    /\ line = None
    /\ summary = None
    /\ n_lines = 0
    /\ obs = EmptyDict
    /\ deferred_list = <<>>
    /\ qual_lines = 0
    /\ fs_appended = 0
    /\ lst = <<>>
    /\ result = None
    /\ file = <<>>
    /\ EdfIdle
    /\ DownloadIdle
    /\ CrawlIdle


\* ------------------------------------------------------------ operations

Key == current_fp[1]

\* lines 109-118 with a block number other than 6 leaving the gate as it is
BlockTrack_open_only(ln, gate) ==
    gate \/ ln.marker \/ (ln.head = "block" /\ ln.num = 6)

\* lines 109-118 with the marker phrases looked for only when the line is
\* not a block start
BlockTrack_explicit_wins(ln, gate) ==
    IF ln.head = "block" THEN ln.num = 6 ELSE (gate \/ ln.marker)

\* lines 109-118: the block gate after the line's own classification
BlockTrack(ln, gate) ==
    LET g == IF ln.head = "block" THEN ln.num = 6 ELSE gate
    IN  IF ln.marker THEN TRUE ELSE g

\* line 140
Qualifies_no_gate(ln, gate) ==
    LET label_text == strip(ln.label)
    IN  re_eeg(label_text) /\ ~re_exclude(label_text)

Qualifies(ln, gate) ==
    LET label_text == strip(ln.label)
    IN  gate /\ re_eeg(label_text) /\ ~re_exclude(label_text)

LabelState == [labels |-> per_file_labels, n |-> ELECTRODES_NOT_UNIQUE,
               lst |-> ELECTRODES_NOT_UNIQUE_LIST, pending |-> pending_chan_labels]

SetLabelState(st) ==
    /\ per_file_labels' = st.labels
    /\ ELECTRODES_NOT_UNIQUE' = st.n
    /\ ELECTRODES_NOT_UNIQUE_LIST' = st.lst
    /\ pending_chan_labels' = st.pending

\* lines 86-96
FinalizeAtRecordStart(st, fp) ==
    IF st.pending # <<>> THEN CheckLabels(st, fp)
    ELSE [st EXCEPT !.labels = SetDefault(st.labels, fp, <<>>)]

\* lines 168-175
FinalizeAtTransType(st, fp) ==
    IF st.pending # <<>> THEN CheckLabels(st, fp) ELSE st

\* lines 185-192
FinalizeAtEof_skipped(st, fp) == st

FinalizeAtEof(st, fp) ==
    IF st.pending # <<>> THEN CheckLabels(st, fp) ELSE st

\* What is kept of a record just started
\* fs_differed: an earlier record of the key ended with block-6 frequencies
\* that are not all equal; dup_flagged: an earlier record of the key was put
\* on ELECTRODES_NOT_UNIQUE_LIST
Fresh(k) ==
    [starts   |-> IF k \in DOMAIN obs THEN obs[k].starts + 1 ELSE 1,
     sections |-> 0, tokens |-> <<>>, hdr |-> 0, quals |-> <<>>,
     fs_differed |-> /\ k \in DOMAIN obs
                     /\ \/ obs[k].fs_differed
                        \/ ~floats_all_equal(obs[k].quals),
     dup_flagged |-> \E i \in 1..Len(ELECTRODES_NOT_UNIQUE_LIST') :
                         ELECTRODES_NOT_UNIQUE_LIST'[i] = k]

\* The duplicate check deferred to the record's boundary, over every
\* bracketed token collected during the record
Deferred ==
    IF current_fp = None THEN deferred_list
    ELSE LET t == obs[Key].tokens
         IN  IF \E i, j \in 1..Len(t) :
                    i < j /\ upper(strip(t[i])) = upper(strip(t[j]))
             THEN Append(deferred_list, Key)
             ELSE deferred_list

\* The loop has a line to read: line n_lines + 1 of a fixed file, or one
\* more drawn line
Reading == pc = "loop" /\ n_lines < (IF file = <<>> THEN MaxLines ELSE Len(file))

Active(ln) == Reading /\ ln.head # "file" /\ current_fp # None

\* line 78 with no handler for FileNotFoundError: the exception ends the run
OpenInput_unhandled ==
    /\ pc = "open"
    /\ \E exists \in BOOLEAN : pc' = IF exists THEN "loop" ELSE "fatal"
    /\ UNCHANGED <<fs_all, per_file_block6_channel_fs, per_file_labels, electrodes_all,
                   FS_NOT_SAME, FS_NOT_SAME_LIST, ELECTRODES_NOT_UNIQUE,
                   ELECTRODES_NOT_UNIQUE_LIST, current_fp, in_block6,
                   collecting_chan_labels, pending_chan_labels, line, summary,
                   seen, lst, result, other>>

\* lines 77-79 and 194-196
OpenInput ==
    /\ pc = "open"
    /\ \E exists \in BOOLEAN : pc' = IF exists THEN "loop" ELSE "post"
    /\ UNCHANGED <<fs_all, per_file_block6_channel_fs, per_file_labels, electrodes_all,
                   FS_NOT_SAME, FS_NOT_SAME_LIST, ELECTRODES_NOT_UNIQUE,
                   ELECTRODES_NOT_UNIQUE_LIST, current_fp, in_block6,
                   collecting_chan_labels, pending_chan_labels, line, summary,
                   seen, lst, result, other>>

\* lines 83-104
RecordStart(ln) ==
    /\ Reading
    /\ ln.head = "file"
    /\ LET st == IF current_fp # None
                 THEN FinalizeAtRecordStart(LabelState, Key)
                 ELSE LabelState
       IN  SetLabelState([st EXCEPT !.pending = <<>>])
    /\ current_fp' = Some(ln.key)
    /\ fs_all' = SetDefault(fs_all, ln.key, None)
    /\ per_file_block6_channel_fs' = DictPut(per_file_block6_channel_fs, ln.key, <<>>)
    /\ in_block6' = FALSE
    /\ collecting_chan_labels' = FALSE
    /\ n_lines' = n_lines + 1
    /\ line' = Some(ln)
    /\ obs' = Put(obs, ln.key, Fresh(ln.key))
    /\ deferred_list' = Deferred
    /\ UNCHANGED <<pc, electrodes_all, FS_NOT_SAME, FS_NOT_SAME_LIST, summary,
                   qual_lines, fs_appended, lst, result, other>>

\* the guard of lines 106-107 placed after the block tracker of lines 109-118
NoActiveRecord_after_tracker(ln) ==
    /\ Reading
    /\ ln.head # "file"
    /\ current_fp = None
    /\ in_block6' = BlockTrack(ln, in_block6)
    /\ n_lines' = n_lines + 1
    /\ line' = Some(ln)
    /\ UNCHANGED <<pc, fs_all, per_file_block6_channel_fs, per_file_labels,
                   electrodes_all, FS_NOT_SAME, FS_NOT_SAME_LIST, ELECTRODES_NOT_UNIQUE,
                   ELECTRODES_NOT_UNIQUE_LIST, current_fp,
                   collecting_chan_labels, pending_chan_labels, summary,
                   obs, deferred_list, qual_lines, fs_appended, lst, result, other>>

\* lines 106-107
NoActiveRecord(ln) ==
    /\ Reading
    /\ ln.head # "file"
    /\ current_fp = None
    /\ n_lines' = n_lines + 1
    /\ line' = Some(ln)
    /\ UNCHANGED <<pc, fs_all, per_file_block6_channel_fs, per_file_labels,
                   electrodes_all, FS_NOT_SAME, FS_NOT_SAME_LIST, ELECTRODES_NOT_UNIQUE,
                   ELECTRODES_NOT_UNIQUE_LIST, current_fp, in_block6,
                   collecting_chan_labels, pending_chan_labels, summary,
                   obs, deferred_list, qual_lines, fs_appended, lst, result, other>>

\* lines 109-128
HeaderFrequency(ln) ==
    /\ Active(ln)
    /\ ln.head = "hdr"
    /\ in_block6' = BlockTrack(ln, in_block6)
    /\ fs_all' = Put(fs_all, Key, Some(ln.num))
    /\ n_lines' = n_lines + 1
    /\ line' = Some(ln)
    /\ obs' = [obs EXCEPT ![Key].hdr = @ + 1]
    /\ UNCHANGED <<pc, per_file_block6_channel_fs, per_file_labels, electrodes_all,
                   FS_NOT_SAME, FS_NOT_SAME_LIST, ELECTRODES_NOT_UNIQUE,
                   ELECTRODES_NOT_UNIQUE_LIST, current_fp, collecting_chan_labels,
                   pending_chan_labels, summary,
                   deferred_list, qual_lines, fs_appended, lst, result, other>>

\* lines 109-118 and 130-148
LabeledChannel(ln) ==
    /\ Active(ln)
    /\ ln.head = "chlabel"
    /\ in_block6' = BlockTrack(ln, in_block6)
    /\ LET label_text == strip(ln.label)
           norm == normalize_label_preserve(label_text)
           use  == Qualifies(ln, in_block6')
           count == use /\ norm # <<>> /\ HasCapital(norm)
       IN  /\ per_file_block6_channel_fs' =
                 IF use
                 THEN DictPut(per_file_block6_channel_fs, Key,
                              Append(DictGet(per_file_block6_channel_fs, Key), ln.num))
                 ELSE per_file_block6_channel_fs
           /\ electrodes_all' = IF count THEN Increment(electrodes_all, norm)
                                ELSE electrodes_all
           /\ fs_appended' = IF use THEN fs_appended + 1 ELSE fs_appended
    /\ n_lines' = n_lines + 1
    /\ line' = Some(ln)
    /\ LET q == /\ BlockTrack(ln, in_block6)
                /\ re_eeg(ln.label)
                /\ ~re_exclude(ln.label)
       IN  /\ qual_lines' = IF q THEN qual_lines + 1 ELSE qual_lines
           /\ obs' = IF q THEN [obs EXCEPT ![Key].quals = Append(@, ln.num)] ELSE obs
    /\ UNCHANGED <<pc, fs_all, per_file_labels, FS_NOT_SAME, FS_NOT_SAME_LIST,
                   ELECTRODES_NOT_UNIQUE, ELECTRODES_NOT_UNIQUE_LIST, current_fp,
                   collecting_chan_labels, pending_chan_labels, summary,
                   deferred_list, lst, result, other>>

\* lines 150-153 without the continue: the line goes on to lines 165-182
UnlabeledChannel_falls_through(ln) ==
    /\ Active(ln)
    /\ ln.head = "chan"
    /\ in_block6' = BlockTrack(ln, in_block6)
    /\ pending_chan_labels' = IF collecting_chan_labels
                              THEN pending_chan_labels \o ln.brackets
                              ELSE pending_chan_labels
    /\ n_lines' = n_lines + 1
    /\ line' = Some(ln)
    /\ UNCHANGED <<pc, fs_all, per_file_block6_channel_fs, per_file_labels,
                   electrodes_all, FS_NOT_SAME, FS_NOT_SAME_LIST, ELECTRODES_NOT_UNIQUE,
                   ELECTRODES_NOT_UNIQUE_LIST, current_fp, collecting_chan_labels,
                   summary,
                   obs, deferred_list, qual_lines, fs_appended, lst, result, other>>

\* lines 109-118 and 150-153
UnlabeledChannel(ln) ==
    /\ Active(ln)
    /\ ln.head = "chan"
    /\ in_block6' = BlockTrack(ln, in_block6)
    /\ n_lines' = n_lines + 1
    /\ line' = Some(ln)
    /\ UNCHANGED <<pc, fs_all, per_file_block6_channel_fs, per_file_labels,
                   electrodes_all, FS_NOT_SAME, FS_NOT_SAME_LIST, ELECTRODES_NOT_UNIQUE,
                   ELECTRODES_NOT_UNIQUE_LIST, current_fp, collecting_chan_labels,
                   pending_chan_labels, summary,
                   obs, deferred_list, qual_lines, fs_appended, lst, result, other>>

\* lines 109-118 and 155-163
ChanLabelsStart(ln) ==
    /\ Active(ln)
    /\ ln.head = "chanlabels"
    /\ in_block6' = BlockTrack(ln, in_block6)
    /\ collecting_chan_labels' = TRUE
    /\ pending_chan_labels' = pending_chan_labels \o ln.brackets
    /\ n_lines' = n_lines + 1
    /\ line' = Some(ln)
    /\ obs' = [obs EXCEPT ![Key].sections = @ + 1, ![Key].tokens = @ \o ln.brackets]
    /\ UNCHANGED <<pc, fs_all, per_file_block6_channel_fs, per_file_labels,
                   electrodes_all, FS_NOT_SAME, FS_NOT_SAME_LIST, ELECTRODES_NOT_UNIQUE,
                   ELECTRODES_NOT_UNIQUE_LIST, current_fp, summary,
                   deferred_list, qual_lines, fs_appended, lst, result, other>>

\* lines 165-182 with chan_trans_type leaving the collecting flag set
LabelContinuation_keeps_collecting(ln) ==
    /\ Active(ln)
    /\ ln.head \in {"transtype", "block", "text"}
    /\ collecting_chan_labels
    /\ in_block6' = BlockTrack(ln, in_block6)
    /\ IF ln.head = "transtype"
       THEN /\ collecting_chan_labels' = TRUE
            /\ SetLabelState(FinalizeAtTransType(LabelState, Key))
            /\ obs' = obs
       ELSE /\ pending_chan_labels' = pending_chan_labels \o ln.brackets
            /\ obs' = [obs EXCEPT ![Key].tokens = @ \o ln.brackets]
            /\ UNCHANGED <<collecting_chan_labels, per_file_labels,
                           ELECTRODES_NOT_UNIQUE, ELECTRODES_NOT_UNIQUE_LIST>>
    /\ n_lines' = n_lines + 1
    /\ line' = Some(ln)
    /\ UNCHANGED <<pc, fs_all, per_file_block6_channel_fs, electrodes_all,
                   FS_NOT_SAME, FS_NOT_SAME_LIST, current_fp, summary,
                   deferred_list, qual_lines, fs_appended, lst, result, other>>

\* lines 109-118 and 165-182, for a line no extractor above has taken
LabelContinuation(ln) ==
    /\ Active(ln)
    /\ ln.head \in {"transtype", "block", "text"}
    /\ collecting_chan_labels
    /\ in_block6' = BlockTrack(ln, in_block6)
    /\ IF ln.head = "transtype"
       THEN /\ collecting_chan_labels' = FALSE
            /\ SetLabelState(FinalizeAtTransType(LabelState, Key))
            /\ obs' = obs
       ELSE /\ pending_chan_labels' = pending_chan_labels \o ln.brackets
            /\ obs' = [obs EXCEPT ![Key].tokens = @ \o ln.brackets]
            /\ UNCHANGED <<collecting_chan_labels, per_file_labels,
                           ELECTRODES_NOT_UNIQUE, ELECTRODES_NOT_UNIQUE_LIST>>
    /\ n_lines' = n_lines + 1
    /\ line' = Some(ln)
    /\ UNCHANGED <<pc, fs_all, per_file_block6_channel_fs, electrodes_all,
                   FS_NOT_SAME, FS_NOT_SAME_LIST, current_fp, summary,
                   deferred_list, qual_lines, fs_appended, lst, result, other>>

\* lines 109-118, and 165 with collecting_chan_labels false
OtherLine(ln) ==
    /\ Active(ln)
    /\ ln.head \in {"transtype", "block", "text"}
    /\ ~collecting_chan_labels
    /\ in_block6' = BlockTrack(ln, in_block6)
    /\ n_lines' = n_lines + 1
    /\ line' = Some(ln)
    /\ UNCHANGED <<pc, fs_all, per_file_block6_channel_fs, per_file_labels,
                   electrodes_all, FS_NOT_SAME, FS_NOT_SAME_LIST, ELECTRODES_NOT_UNIQUE,
                   ELECTRODES_NOT_UNIQUE_LIST, current_fp, collecting_chan_labels,
                   pending_chan_labels, summary,
                   obs, deferred_list, qual_lines, fs_appended, lst, result, other>>

\* lines 184-192: the for loop has ended
EndOfInput ==
    /\ pc = "loop"
    /\ file = <<>> \/ n_lines = Len(file)
    /\ SetLabelState(IF current_fp # None THEN FinalizeAtEof(LabelState, Key)
                     ELSE LabelState)
    /\ pc' = "post"
    /\ deferred_list' = Deferred
    /\ UNCHANGED <<fs_all, per_file_block6_channel_fs, electrodes_all, FS_NOT_SAME,
                   FS_NOT_SAME_LIST, current_fp, in_block6, collecting_chan_labels,
                   line, summary, n_lines, obs, qual_lines, fs_appended, lst, result, other>>


\* lines 199-205: one iteration for item i of the dict, on st = [n, lst]
RECURSIVE FsLoop(_, _, _)
FsLoop(d, i, st) ==
    IF i > Len(d) THEN st
    ELSE IF d[i].fs = <<>> THEN FsLoop(d, i + 1, st)
    ELSE IF ~floats_all_equal(d[i].fs)
    THEN FsLoop(d, i + 1, [n |-> st.n + 1, lst |-> Append(st.lst, d[i].fp)])
    ELSE FsLoop(d, i + 1, st)

\* lines 198-217
Summarize ==
    /\ pc = "post"
    /\ LET st == FsLoop(per_file_block6_channel_fs, 1,
                        [n |-> FS_NOT_SAME, lst |-> FS_NOT_SAME_LIST])
       IN  /\ FS_NOT_SAME' = st.n
           /\ FS_NOT_SAME_LIST' = st.lst
           /\ summary' = Some([fs_all |-> fs_all,
                               FS_NOT_SAME |-> st.n,
                               FS_NOT_SAME_LIST |-> st.lst,
                               electrodes_all |-> electrodes_all,
                               ELECTRODES_NOT_UNIQUE |-> ELECTRODES_NOT_UNIQUE,
                               ELECTRODES_NOT_UNIQUE_LIST |-> ELECTRODES_NOT_UNIQUE_LIST])
    /\ pc' = "done"
    /\ UNCHANGED <<fs_all, per_file_block6_channel_fs, per_file_labels, electrodes_all,
                   ELECTRODES_NOT_UNIQUE, ELECTRODES_NOT_UNIQUE_LIST, current_fp,
                   in_block6, collecting_chan_labels, pending_chan_labels, line,
                   seen, lst, result, other>>

\* One line of the input file, drawn from L
ReadLine(L) ==
    \E ln \in L :
        \/ RecordStart(ln)
        \/ NoActiveRecord(ln)
        \/ HeaderFrequency(ln)
        \/ LabeledChannel(ln)
        \/ UnlabeledChannel(ln)
        \/ ChanLabelsStart(ln)
        \/ LabelContinuation(ln)
        \/ OtherLine(ln)

\* ------------------------------------------------------------ specifications

Next == OpenInput \/ ReadLine(Lines) \/ EndOfInput \/ Summarize

Spec == Init /\ [][Next]_vars

\* Header frequency lines among the other kinds of line
Hz256 == Hz(256)

HdrMarkerLine(v) == Line("hdr", "", v, <<>>, TRUE, <<>>)

HeaderLines ==
    { FileLine(FileA), FileLine(FileB),
      BlockLine(6, FALSE),
      HdrLine(Hz250, <<>>),
      HdrLine(Hz256, <<TokO2>>),
      HdrMarkerLine(Hz100),
      ChLabelLine(Hz100, LabelFp1, FALSE),
      ChanLine(Hz250),
      ChanLabelsLine(<<TokFP1, TokFP2>>),
      TextLine(FALSE, <<TokFP1sp>>),
      TransTypeLine }

NextHeader == OpenInput \/ ReadLine(HeaderLines) \/ EndOfInput \/ Summarize

SpecHeader == Init /\ [][NextHeader]_vars

\* Block starts and marker phrases on lines of every kind
Marked(ln) == [ln EXCEPT !.marker = TRUE]

BlockLines ==
    { FileLine(FileA), FileLine(FileB),
      BlockLine(6, FALSE), BlockLine(5, FALSE), BlockLine(5, TRUE),
      TextLine(TRUE, <<>>),
      ChLabelLine(Hz100, LabelFp1, FALSE),
      ChLabelLine(Hz250, LabelFp1, TRUE),
      HdrMarkerLine(Hz100),
      Marked(ChanLine(Hz250)),
      Marked(ChanLabelsLine(<<TokFP1, TokFP2>>)),
      TransTypeLine }

NextBlock == OpenInput \/ ReadLine(BlockLines) \/ EndOfInput \/ Summarize

SpecBlock == Init /\ [][NextBlock]_vars

\* Bracketed tokens on lines of every kind, around a chan_labels section
WithBrackets(ln, b) == [ln EXCEPT !.brackets = b]

CollectLines ==
    { FileLine(FileA), FileLine(FileB),
      BlockLine(6, FALSE),
      ChanLabelsLine(<<TokFP1, TokFP2>>),
      HdrLine(Hz256, <<TokO2>>),
      WithBrackets(ChLabelLine(Hz100, LabelFp1, FALSE), <<TokO2>>),
      WithBrackets(ChanLine(Hz250), <<TokO2>>),
      Marked(ChanLine(Hz250)),
      TextLine(FALSE, <<TokO2, TokFP1sp>>),
      TextLine(FALSE, <<>>),
      WithBrackets(TransTypeLine, <<TokO2>>) }

NextCollect == OpenInput \/ ReadLine(CollectLines) \/ EndOfInput \/ Summarize

SpecCollect == Init /\ [][NextCollect]_vars

\* The end-to-end scenario: the files made of record fileA.rec, whose block 6
\* holds two qualifying channel lines at 250.0 Hz and one excluded channel
\* line, and record fileB.rec, whose block 6 holds qualifying channel lines
\* at 250.0 and 256.0 Hz, with lines of the other kinds around them
ScenarioGates == {BlockLine(6, FALSE), TextLine(TRUE, <<>>)}

ScenarioLabels == {LabelFp1, LabelLowO2, LabelEkg}

ScenarioPreambles == {<<>>, <<TextLine(FALSE, <<TokFP1sp>>)>>}

ScenarioTails ==
    { <<>>,
      <<HdrLine(Hz250, <<>>), ChanLine(Hz256)>>,
      <<ChanLabelsLine(<<TokFP1, TokFP2>>), TextLine(FALSE, <<TokFP1sp>>)>> }

RecordA(excluded_at) ==
    LET q1 == ChLabelLine(Hz250, LabelFp1, FALSE)
        q2 == ChLabelLine(Hz250, LabelLowO2, FALSE)
        ex == ChLabelLine(Hz250, LabelResp, FALSE)
    IN  CASE excluded_at = 1 -> <<ex, q1, q2>>
          [] excluded_at = 2 -> <<q1, ex, q2>>
          [] excluded_at = 3 -> <<q1, q2, ex>>

ScenarioFiles ==
    { pre \o <<FileLine(FileA), ga>> \o RecordA(x) \o tail
          \o <<FileLine(FileB), gb,
               ChLabelLine(IF swap THEN Hz256 ELSE Hz250, l3, FALSE),
               ChLabelLine(IF swap THEN Hz250 ELSE Hz256, l4, FALSE)>> :
        pre \in ScenarioPreambles, ga \in ScenarioGates, x \in 1..3,
        tail \in ScenarioTails, gb \in ScenarioGates, swap \in BOOLEAN,
        l3 \in ScenarioLabels, l4 \in {LabelFp1} }

InitFile ==
    /\ pc = "open"
    /\ fs_all = EmptyDict
    /\ per_file_block6_channel_fs = <<>>
    /\ per_file_labels = EmptyDict
    /\ electrodes_all = EmptyDict
    /\ FS_NOT_SAME = 0
    /\ FS_NOT_SAME_LIST = <<>>
    /\ ELECTRODES_NOT_UNIQUE = 0
    /\ ELECTRODES_NOT_UNIQUE_LIST = <<>>
    /\ current_fp = None
    /\ in_block6 = FALSE
    /\ collecting_chan_labels = FALSE
    /\ pending_chan_labels = <<>>
    /\ line = None
    /\ summary = None
    /\ n_lines = 0
    /\ obs = EmptyDict
    /\ deferred_list = <<>>
    /\ qual_lines = 0
    /\ fs_appended = 0
    /\ lst = <<>>
    /\ result = None
    /\ file \in ScenarioFiles
    /\ EdfIdle
    /\ DownloadIdle
    /\ CrawlIdle

\* line 79: the next line of the file
NextInFile == {file[i] : i \in {n_lines + 1} \cap (1..Len(file))}

NextFile == OpenInput \/ ReadLine(NextInFile) \/ EndOfInput \/ Summarize

SpecFile == InitFile /\ [][NextFile]_vars

\* floats_all_equal applied to a list of frequencies
FloatValues == {Hz100, Hz100_5e7, Hz100_8e7, Hz99_8e7, Hz100_01}

RECURSIVE Lists(_, _)
Lists(S, n) ==
    IF n = 0 THEN {<<>>}
    ELSE Lists(S, n - 1) \cup {Append(l, x) : l \in {m \in Lists(S, n - 1) : Len(m) = n - 1}, x \in S}

InitFloats ==
    /\ pc = "floats"
    /\ fs_all = EmptyDict
    /\ per_file_block6_channel_fs = <<>>
    /\ per_file_labels = EmptyDict
    /\ electrodes_all = EmptyDict
    /\ FS_NOT_SAME = 0
    /\ FS_NOT_SAME_LIST = <<>>
    /\ ELECTRODES_NOT_UNIQUE = 0
    /\ ELECTRODES_NOT_UNIQUE_LIST = <<>>
    /\ current_fp = None
    /\ in_block6 = FALSE
    /\ collecting_chan_labels = FALSE
    /\ pending_chan_labels = <<>>
    /\ line = None
    /\ summary = None
    /\ n_lines = 0
    /\ obs = EmptyDict
    /\ deferred_list = <<>>
    /\ qual_lines = 0
    /\ fs_appended = 0
    /\ lst \in Lists(FloatValues, MaxFloats)
    /\ result = None
    /\ file = <<>>
    /\ EdfIdle
    /\ DownloadIdle
    /\ CrawlIdle

ApplyFloatsAllEqual ==
    /\ pc = "floats"
    /\ result = None
    /\ result' = Some(floats_all_equal(lst))
    /\ UNCHANGED <<prog, line, seen, lst, other>>

NextFloats == ApplyFloatsAllEqual

SpecFloats == InitFloats /\ [][NextFloats]_vars


\* ------------------------------------------------------------ 01_find_edf_files_w_target_electrodes.py

\* The number of lines headers.txt holds at most in SpecEdf.
MaxEdfLines == 6

\* the parser's variables, which the streaming scripts and download_file
\* leave alone; line is also the name of the line the streaming scripts read
parser_but_line ==
    <<fs_all, per_file_block6_channel_fs, per_file_labels, electrodes_all,
      FS_NOT_SAME, FS_NOT_SAME_LIST, ELECTRODES_NOT_UNIQUE,
      ELECTRODES_NOT_UNIQUE_LIST, current_fp, in_block6,
      collecting_chan_labels, pending_chan_labels, summary,
      seen, lst, result, file>>

parser == <<parser_but_line, line>>

SELECTIVE_ELECTRODES == TRUE

Sites ==
    { <<"C","3">>, <<"C","4">>, <<"F","3">>, <<"F","4">>, <<"F","7">>, <<"F","8">>,
      <<"F","P","1">>, <<"F","P","2">>, <<"O","1">>, <<"O","2">>,
      <<"P","3">>, <<"P","4">>, <<"T","3">>, <<"T","4">>, <<"T","5">>, <<"T","6">> }

Electrode(site) == <<"E","E","G"," ">> \o site \o <<"-","R","E","F">>

TARGET_ELECTRODES == {Electrode(site) : site \in Sites}

\* str.startswith and the in operator on strings
StartsWith(s, p) == Len(s) >= Len(p) /\ SubSeq(s, 1, Len(p)) = p

Contains(s, p) ==
    \E i \in 1..(Len(s) - Len(p) + 1) : SubSeq(s, i, i + Len(p) - 1) = p

\* lines 89-91, on the texts found between square brackets
extract_bracket_items(found) == [i \in 1..Len(found) |-> strip(found[i])]

Elements(q) == {q[i] : i \in 1..Len(q)}

\* lines 109-115: falsy values are written as the empty string
OrEmpty(x) == IF x # None /\ x[1] = 0 THEN None ELSE x

Row(cur) == <<Some(cur.path), cur.age, cur.gender, OrEmpty(cur.duration), OrEmpty(cur.fs)>>

HeaderRow == <<"filepath", "age", "gender", "duration", "fs">>

\* lines 102-106 with any in place of all
flush_and_write_any(cur, rows) ==
    LET present == {strip(c) : c \in cur.chan_names}
        need == TARGET_ELECTRODES
    IN  IF SELECTIVE_ELECTRODES /\ need \cap present = {}
        THEN [rows |-> rows, ok |-> FALSE]
        ELSE [rows |-> Append(rows, Row(cur)), ok |-> TRUE]

\* lines 93-116, for a record with a path: the rows of the CSV afterwards and
\* the value returned
flush_and_write(cur, rows) ==
    LET present == {strip(c) : c \in cur.chan_names}
        need == TARGET_ELECTRODES
    IN  IF SELECTIVE_ELECTRODES /\ ~(need \subseteq present)
        THEN [rows |-> rows, ok |-> FALSE]
        ELSE [rows |-> Append(rows, Row(cur)), ok |-> TRUE]

\* lines 141-144 and 233-236, on st = [current, current_block, csv_rows,
\* scanned, written, flushes]
Flush(st) ==
    IF st.current = None THEN st
    ELSE LET r == flush_and_write(st.current[1], st.csv_rows)
         IN  [st EXCEPT !.csv_rows = r.rows,
                        !.written = IF r.ok THEN @ + 1 ELSE @,
                        !.flushes = Append(@, [path |-> st.current[1].path,
                                               chan_names |-> st.current[1].chan_names,
                                               row |-> Len(r.rows) > Len(st.csv_rows)])]

\* lines 138-166: one .edf occurrence c = [path, age, gender], the last two
\* being what the tail of the line gives
StartRecord(st, c) ==
    LET flushed == Flush(st)
    IN  [flushed EXCEPT
            !.current = Some([path |-> c.path, age |-> c.age, gender |-> c.gender,
                              duration |-> None, fs |-> None, chan_names |-> {}]),
            !.current_block = None,
            !.scanned = @ + 1]

RECURSIVE StartRecords(_, _, _)
StartRecords(st, cands, i) ==
    IF i > Len(cands) THEN st
    ELSE StartRecords(StartRecord(st, cands[i]), cands, i + 1)

\* lines 168-230 with the age and gender of the latest line that holds one
Collect_last_wins(st, ln) ==
    IF st.current = None THEN st
    ELSE LET cur == st.current[1]
             block == IF ln.block # None THEN ln.block ELSE st.current_block
             from5 == IF block = Some(5)
                      THEN {strip(it) : it \in Elements(extract_bracket_items(ln.brackets))}
                      ELSE {}
             from_channel == IF block = Some(6) /\ ln.channel # None
                             THEN {strip(ln.channel[1])}
                             ELSE {}
             from_parens == IF block = Some(6)
                            THEN {p \in {strip(par) : par \in Elements(ln.parens)} :
                                    \/ StartsWith(upper(p), <<"E","E","G">>)
                                    \/ Contains(p, <<"-","R","E","F">>)}
                            ELSE {}
         IN  [st EXCEPT
                 !.current_block = block,
                 !.current = Some(
                     [path |-> cur.path,
                      age |-> IF ln.age # None THEN ln.age ELSE cur.age,
                      gender |-> IF ln.gender # None THEN ln.gender ELSE cur.gender,
                      duration |-> IF block = Some(6) /\ ln.duration # None
                                   THEN ln.duration ELSE cur.duration,
                      fs |-> IF block = Some(6) /\ ln.fs # None
                             THEN ln.fs ELSE cur.fs,
                      chan_names |-> cur.chan_names \cup from5 \cup from_channel
                                         \cup from_parens])]

\* lines 168-230
Collect(st, ln) ==
    IF st.current = None THEN st
    ELSE LET cur == st.current[1]
             block == IF ln.block # None THEN ln.block ELSE st.current_block
             from5 == IF block = Some(5)
                      THEN {strip(it) : it \in Elements(extract_bracket_items(ln.brackets))}
                      ELSE {}
             from_channel == IF block = Some(6) /\ ln.channel # None
                             THEN {strip(ln.channel[1])}
                             ELSE {}
             from_parens == IF block = Some(6)
                            THEN {p \in {strip(par) : par \in Elements(ln.parens)} :
                                    \/ StartsWith(upper(p), <<"E","E","G">>)
                                    \/ Contains(p, <<"-","R","E","F">>)}
                            ELSE {}
         IN  [st EXCEPT
                 !.current_block = block,
                 !.current = Some(
                     [path |-> cur.path,
                      age |-> IF cur.age = None THEN ln.age ELSE cur.age,
                      gender |-> IF cur.gender = None THEN ln.gender ELSE cur.gender,
                      duration |-> IF block = Some(6) /\ ln.duration # None
                                   THEN ln.duration ELSE cur.duration,
                      fs |-> IF block = Some(6) /\ ln.fs # None
                             THEN ln.fs ELSE cur.fs,
                      chan_names |-> cur.chan_names \cup from5 \cup from_channel
                                         \cup from_parens])]

StreamState == [current |-> current, current_block |-> current_block,
                csv_rows |-> csv_rows, scanned |-> scanned, written |-> written,
                flushes |-> flushes]

SetStreamState(st) ==
    /\ current' = st.current
    /\ current_block' = st.current_block
    /\ csv_rows' = st.csv_rows
    /\ scanned' = st.scanned
    /\ written' = st.written
    /\ flushes' = st.flushes

\* lines 120-132
OpenStream ==
    /\ pc = "edf_open"
    /\ \E isfile \in BOOLEAN :
           IF isfile
           THEN pc' = "edf_loop" /\ csv_rows' = <<HeaderRow>>
           ELSE pc' = "edf_exit" /\ csv_rows' = csv_rows
    /\ UNCHANGED <<parser, current, current_block, scanned, written, edf_lines,
                   flushes, dl, crawl>>

\* lines 134-230: one line of headers.txt
StreamLine(ln) ==
    /\ pc = "edf_loop"
    /\ edf_lines < MaxEdfLines
    /\ SetStreamState(Collect(StartRecords(StreamState, ln.edfs, 1), ln))
    /\ edf_lines' = edf_lines + 1
    /\ line' = Some(ln)
    /\ UNCHANGED <<pc, parser_but_line, dl, crawl>>

\* lines 232-238
EndOfStream ==
    /\ pc = "edf_loop"
    /\ SetStreamState(Flush(StreamState))
    /\ pc' = "edf_done"
    /\ UNCHANGED <<parser, edf_lines, dl, crawl>>

\* The lines of headers.txt, by what the regexes of lines 26-38 find in them
EdfLine(edfs, block, age, gender, brackets, duration, fs, channel, parens) ==
    [edfs |-> edfs, block |-> block, age |-> age, gender |-> gender,
     brackets |-> brackets, duration |-> duration, fs |-> fs,
     channel |-> channel, parens |-> parens]

PathA == "a.edf"
PathB == "b.edf"

Found(path, age, gender) == [path |-> path, age |-> age, gender |-> gender]

Padded(s) == <<" ">> \o s \o <<" ">>

\* a sequence holding the members of a set of names
RECURSIVE AsSeq(_)
AsSeq(S) ==
    IF S = {} THEN <<>>
    ELSE LET x == CHOOSE y \in S : TRUE IN <<x>> \o AsSeq(S \ {x})

AllButO2 == TARGET_ELECTRODES \ {Electrode(<<"O","2">>)}

EdfLines ==
    { \* a record starts; two records start on one line; the tail gives an age
      EdfLine(<<Found(PathA, None, None)>>, None, None, None, <<>>, None, None, None, <<>>),
      EdfLine(<<Found(PathA, None, None), Found(PathB, None, Some("Male"))>>,
              None, None, Some("Male"), <<>>, None, None, None, <<>>),
      \* Block 5: and Block 6:
      EdfLine(<<>>, Some(5), None, None, <<>>, None, None, None, <<>>),
      EdfLine(<<>>, Some(6), None, None, <<>>, None, None, None, <<>>),
      \* chan_labels (15) = [ EEG C3-REF ], ... without O2
      EdfLine(<<>>, None, None, None, AsSeq({Padded(e) : e \in AllButO2}),
              None, None, None, <<>>),
      \* the sixteen names in brackets
      EdfLine(<<>>, None, None, None, AsSeq(TARGET_ELECTRODES), None, None, None, <<>>),
      \* channel[ 9]: 250.0 Hz (EEG O2-REF)
      EdfLine(<<>>, None, None, None, <<>>, None, None,
              Some(Electrode(<<"O","2">>)), <<Electrode(<<"O","2">>)>>),
      \* a text with ( eeg o2-ref ) and (secs)
      EdfLine(<<>>, None, None, None, <<>>, None, None, None,
              << <<" ","e","e","g"," ","o","2","-","r","e","f"," ">>,
                 <<"s","e","c","s">> >>),
      \* age, duration 0 and hdr_sample_frequency = 250
      EdfLine(<<>>, None, Some("45"), None, <<>>, Some(0), Some(250), None, <<>>) }

InitEdf ==
    /\ pc = "edf_open"
    /\ fs_all = EmptyDict
    /\ per_file_block6_channel_fs = <<>>
    /\ per_file_labels = EmptyDict
    /\ electrodes_all = EmptyDict
    /\ FS_NOT_SAME = 0
    /\ FS_NOT_SAME_LIST = <<>>
    /\ ELECTRODES_NOT_UNIQUE = 0
    /\ ELECTRODES_NOT_UNIQUE_LIST = <<>>
    /\ current_fp = None
    /\ in_block6 = FALSE
    /\ collecting_chan_labels = FALSE
    /\ pending_chan_labels = <<>>
    /\ line = None
    /\ summary = None
    /\ n_lines = 0
    /\ obs = EmptyDict
    /\ deferred_list = <<>>
    /\ qual_lines = 0
    /\ fs_appended = 0
    /\ lst = <<>>
    /\ result = None
    /\ file = <<>>
    /\ EdfIdle
    /\ DownloadIdle
    /\ CrawlIdle

NextEdf == OpenStream \/ (\E ln \in EdfLines : StreamLine(ln)) \/ EndOfStream

SpecEdf == InitEdf /\ [][NextEdf]_vars

\* ------------------------------------------------------------ old/extract_labels_from_txt.py

\* os.path.basename on the paths of the model
PathDirA == "dir/a.edf"

basename(path) == IF path = PathDirA THEN PathA ELSE path

\* lines 94-95 and 127-128: falsy values are written as the empty string
PlainRow(cur) == <<Some(cur.edf), cur.age, cur.gender>>

PlainHeaderRow == <<"file_name", "age", "gender">>

\* lines 93-97 and 126-130, on st = [current, current_block, csv_rows,
\* scanned, written, flushes]
FlushPlain(st) ==
    IF st.current = None THEN st
    ELSE [st EXCEPT !.csv_rows = Append(@, PlainRow(st.current[1])),
                    !.written = @ + 1,
                    !.flushes = Append(@, [path |-> st.current[1].edf, row |-> TRUE])]

\* lines 89-112 without the flush of the record before
StartRecordPlain_no_flush(st, c) ==
    [st EXCEPT
        !.current = Some([edf |-> basename(c.path), age |-> c.age, gender |-> c.gender]),
        !.scanned = @ + 1]

\* lines 89-112: one .edf occurrence c = [path, age, gender], the last two
\* being what the tail of the line gives
StartRecordPlain(st, c) ==
    [FlushPlain(st) EXCEPT
        !.current = Some([edf |-> basename(c.path), age |-> c.age, gender |-> c.gender]),
        !.scanned = @ + 1]

RECURSIVE StartRecordsPlain(_, _, _)
StartRecordsPlain(st, cands, i) ==
    IF i > Len(cands) THEN st
    ELSE StartRecordsPlain(StartRecordPlain(st, cands[i]), cands, i + 1)

\* lines 114-123
CollectPlain(st, ln) ==
    IF st.current = None THEN st
    ELSE LET cur == st.current[1]
         IN  [st EXCEPT
                 !.current = Some(
                     [edf |-> cur.edf,
                      age |-> IF cur.age = None THEN ln.age ELSE cur.age,
                      gender |-> IF cur.gender = None THEN ln.gender ELSE cur.gender])]

\* lines 74-83
OpenPlain ==
    /\ pc = "plain_open"
    /\ \E opened \in BOOLEAN :
           IF opened
           THEN pc' = "plain_loop" /\ csv_rows' = <<PlainHeaderRow>>
           ELSE pc' = "plain_exit" /\ csv_rows' = csv_rows
    /\ UNCHANGED <<parser, current, current_block, scanned, written, edf_lines,
                   flushes, dl, crawl>>

\* lines 85-123: one line of headers.txt
PlainLine(ln) ==
    /\ pc = "plain_loop"
    /\ edf_lines < MaxEdfLines
    /\ SetStreamState(CollectPlain(StartRecordsPlain(StreamState, ln.edfs, 1), ln))
    /\ edf_lines' = edf_lines + 1
    /\ line' = Some(ln)
    /\ UNCHANGED <<pc, parser_but_line, dl, crawl>>

\* lines 125-132
EndOfPlain ==
    /\ pc = "plain_loop"
    /\ SetStreamState(FlushPlain(StreamState))
    /\ pc' = "plain_done"
    /\ UNCHANGED <<parser, edf_lines, dl, crawl>>

\* A line of headers.txt by what RE_EDF and the age and gender parsers find
AgeGenderLine(edfs, age, gender) ==
    EdfLine(edfs, None, age, gender, <<>>, None, None, None, <<>>)

\* The lines of the two streaming scripts together
StreamLines ==
    { \* a record starts; two start on one line with a gender after the
      \* second name; one starts with an age after its name
      AgeGenderLine(<<Found(PathA, None, None)>>, None, None),
      AgeGenderLine(<<Found(PathDirA, None, Some("Male")), Found(PathB, None, Some("Male"))>>,
                    None, Some("Male")),
      AgeGenderLine(<<Found(PathB, Some("30"), None)>>, Some("30"), None),
      \* Age: 45; 50 years and gender F; no age and no gender
      AgeGenderLine(<<>>, Some("45"), None),
      AgeGenderLine(<<>>, Some("50"), Some("Female")),
      AgeGenderLine(<<>>, None, None),
      \* Block 5: with the sixteen names in brackets
      EdfLine(<<>>, Some(5), None, None, AsSeq(TARGET_ELECTRODES), None, None, None, <<>>) }

\* either script is about to run
InitStreams ==
    /\ pc \in {"edf_open", "plain_open"}
    /\ fs_all = EmptyDict
    /\ per_file_block6_channel_fs = <<>>
    /\ per_file_labels = EmptyDict
    /\ electrodes_all = EmptyDict
    /\ FS_NOT_SAME = 0
    /\ FS_NOT_SAME_LIST = <<>>
    /\ ELECTRODES_NOT_UNIQUE = 0
    /\ ELECTRODES_NOT_UNIQUE_LIST = <<>>
    /\ current_fp = None
    /\ in_block6 = FALSE
    /\ collecting_chan_labels = FALSE
    /\ pending_chan_labels = <<>>
    /\ line = None
    /\ summary = None
    /\ n_lines = 0
    /\ obs = EmptyDict
    /\ deferred_list = <<>>
    /\ qual_lines = 0
    /\ fs_appended = 0
    /\ lst = <<>>
    /\ result = None
    /\ file = <<>>
    /\ EdfIdle
    /\ DownloadIdle
    /\ CrawlIdle

NextStreams ==
    \/ OpenStream
    \/ \E ln \in StreamLines : StreamLine(ln)
    \/ EndOfStream
    \/ OpenPlain
    \/ \E ln \in StreamLines : PlainLine(ln)
    \/ EndOfPlain

SpecStreams == InitStreams /\ [][NextStreams]_vars

\* ------------------------------------------------------------ download_tuh_eeg.py

\* The number of calls of download_file made for one local_path in SpecDownload.
MaxAttempts == 2

SKIP_EXISTING == TRUE

local_path == "local_path"

\* line 74 with the stream written to local_path itself
tmp_in_place == local_path

\* line 74
tmp == "local_path.part"

\* os.path.getsize, every chunk of the model being one byte long
GetSize(content) == Len(content)

\* lines 79-81: what the loop writes of a stream, empty chunks left out
RECURSIVE Written(_)
Written(chunks) ==
    IF chunks = <<>> THEN <<>>
    ELSE IF Head(chunks) = "" THEN Written(Tail(chunks))
    ELSE <<Head(chunks)>> \o Written(Tail(chunks))

\* the streams the server may hold for file_url
RemoteFiles == { <<"a">>, <<"a", "b">>, <<"a", "", "b">>, <<"a", "b", "c">> }

Running == {"dl_call", "dl_get", "dl_open", "dl_write", "dl_replace"}

\* lines 60-70
CheckExisting ==
    /\ pc = "dl_call"
    /\ IF disk[local_path] # None /\ SKIP_EXISTING
       THEN \E head \in {"raises", "not 200", "no Content-Length", "ok"} :
                IF head = "ok" /\ GetSize(disk[local_path][1]) = GetSize(Written(remote))
                THEN pc' = "dl_returned"
                ELSE pc' = "dl_get"
       ELSE pc' = "dl_get"
    /\ UNCHANGED <<parser, edf, crawl, disk, response, remote, previous, attempts>>

\* lines 72-76: session.get, raise_for_status and makedirs, any of which may raise
Get ==
    /\ pc = "dl_get"
    /\ \E raises \in BOOLEAN :
           IF raises
           THEN pc' = "dl_error" /\ response' = response
           ELSE pc' = "dl_open" /\ response' = Some(remote)
    /\ UNCHANGED <<parser, edf, crawl, disk, remote, previous, attempts>>

\* line 78
OpenTmp ==
    /\ pc = "dl_open"
    /\ \E raises \in BOOLEAN :
           IF raises
           THEN pc' = "dl_error" /\ disk' = disk
           ELSE pc' = "dl_write" /\ disk' = [disk EXCEPT ![tmp] = Some(<<>>)]
    /\ UNCHANGED <<parser, edf, crawl, response, remote, previous, attempts>>

\* lines 79-81: one chunk of the stream, or the stream breaks
WriteChunk ==
    /\ pc = "dl_write"
    /\ response[1] # <<>>
    /\ \E raises \in BOOLEAN :
           IF raises
           THEN pc' = "dl_error" /\ UNCHANGED <<disk, response>>
           ELSE /\ pc' = pc
                /\ response' = Some(Tail(response[1]))
                /\ disk' = IF Head(response[1]) # ""
                           THEN [disk EXCEPT ![tmp] = Some(Append(@[1], Head(response[1])))]
                           ELSE disk
    /\ UNCHANGED <<parser, edf, crawl, remote, previous, attempts>>

\* lines 79-81: the stream has ended and the file is closed
EndOfStreamReached ==
    /\ pc = "dl_write"
    /\ response[1] = <<>>
    /\ pc' = "dl_replace"
    /\ UNCHANGED <<parser, edf, crawl, disk, response, remote, previous, attempts>>

\* lines 82-83
Replace ==
    /\ pc = "dl_replace"
    /\ \E raises \in BOOLEAN :
           IF raises
           THEN pc' = "dl_error" /\ disk' = disk
           ELSE /\ pc' = "dl_returned"
                /\ disk' = IF tmp = local_path THEN disk
                           ELSE [disk EXCEPT ![local_path] = disk[tmp], ![tmp] = None]
    /\ UNCHANGED <<parser, edf, crawl, response, remote, previous, attempts>>

\* the run is interrupted: KeyboardInterrupt is not an Exception, line 84
\* does not catch it
Cancel ==
    /\ pc \in Running
    /\ pc' = "dl_cancelled"
    /\ UNCHANGED <<parser, edf, crawl, disk, response, remote, previous, attempts>>

\* the script is run again and reaches the same file (lines 124-128)
Restart ==
    /\ pc \in {"dl_error", "dl_cancelled", "dl_returned"}
    /\ attempts < MaxAttempts
    /\ pc' = "dl_call"
    /\ attempts' = attempts + 1
    /\ previous' = disk[local_path]
    /\ response' = None
    /\ UNCHANGED <<parser, edf, crawl, disk, remote>>

InitDownload ==
    /\ pc = "dl_call"
    /\ fs_all = EmptyDict
    /\ per_file_block6_channel_fs = <<>>
    /\ per_file_labels = EmptyDict
    /\ electrodes_all = EmptyDict
    /\ FS_NOT_SAME = 0
    /\ FS_NOT_SAME_LIST = <<>>
    /\ ELECTRODES_NOT_UNIQUE = 0
    /\ ELECTRODES_NOT_UNIQUE_LIST = <<>>
    /\ current_fp = None
    /\ in_block6 = FALSE
    /\ collecting_chan_labels = FALSE
    /\ pending_chan_labels = <<>>
    /\ line = None
    /\ summary = None
    /\ n_lines = 0
    /\ obs = EmptyDict
    /\ deferred_list = <<>>
    /\ qual_lines = 0
    /\ fs_appended = 0
    /\ lst = <<>>
    /\ result = None
    /\ file = <<>>
    /\ EdfIdle
    /\ remote \in RemoteFiles
    /\ previous \in {None, Some(<<"o">>), Some(<<"o", "l", "d">>), Some(Written(remote))}
    /\ \E part \in {None, Some(<<"a">>)} :
           disk = [f \in {local_path, tmp} |-> IF f = local_path THEN previous ELSE part]
    /\ response = None
    /\ attempts = 1
    /\ CrawlIdle

NextDownload ==
    \/ CheckExisting
    \/ Get
    \/ OpenTmp
    \/ WriteChunk
    \/ EndOfStreamReached
    \/ Replace
    \/ Cancel
    \/ Restart

SpecDownload == InitDownload /\ [][NextDownload]_vars

\* ------------------------------------------------------------ download_tuh_eeg.py: crawl_index

\* A URL: its path, whether the path ends with "/", and what follows the
\* path (query and fragment)
Url(path, slash, rest) == [path |-> path, slash |-> slash, rest |-> rest]

\* lines 43-45
sanitize_url(u) == [u EXCEPT !.rest = ""]

\* str.endswith('/') on a URL and on a text
UrlEndsWithSlash(u) == u.rest = "" /\ u.slash

EndsWith(s, p) == Len(s) >= Len(p) /\ SubSeq(s, Len(s) - Len(p) + 1, Len(s)) = p

\* the texts of lines 106 and 109
PARENT == <<"P","A","R","E","N","T">>
PARENTTEXT == <<" ","P","a","r","e","n","t"," ","D","i","r","e","c","t","o","r","y">>
NAME == <<"N","a","m","e">>
DOTDOT == <<".",".","/">>
SLASH == <<"/">>
MAILTO == <<"m","a","i","l","t","o",":">>
JAVASCRIPT == <<"j","a","v","a","s","c","r","i","p","t",":">>
SORT == <<"?","C","=","N">>

\* lines 102-110: the links the loop passes over
Skipped(a) ==
    \/ a.href = None
    \/ a.href[1] = <<>>
    \/ StartsWith(upper(strip(a.text)), PARENT)
    \/ a.href[1] \in {DOTDOT, SLASH}
    \/ StartsWith(a.href[1], <<"#">>)
    \/ StartsWith(a.href[1], MAILTO)
    \/ StartsWith(upper(a.href[1]), upper(JAVASCRIPT))

\* line 116
IsDirectory(a, full) == EndsWith(a.href[1], SLASH) \/ UrlEndsWithSlash(full)

\* An <a> element: its href, its text and what urljoin(current_url, href) gives
Link(href, text, full) == [href |-> href, text |-> text, full |-> full]

Root == Url("/data/", TRUE, "")
DirA == Url("/data/a/", TRUE, "")
DirB == Url("/data/a/b/", TRUE, "")
DirC == Url("/data/c/", TRUE, "")
FileF == Url("/data/f.edf", FALSE, "")
FileG == Url("/data/a/g.edf", FALSE, "")

ParentLink(full) == Link(Some(DOTDOT), PARENTTEXT, full)
NoHref == Link(None, NAME, Root)
TopLink(of) == Link(Some(<<"#","t","o","p">>), NAME, Url(of.path, of.slash, "#top"))
SortLink(of) == Link(Some(SORT), NAME, Url(of.path, of.slash, "?C=N"))
LinkA == Link(Some(<<"a","/">>), NAME, DirA)
LinkB == Link(Some(<<"b","/">>), NAME, DirB)
LinkC == Link(Some(<<"c","/">>), NAME, DirC)
BackToA == Link(Some(<<".",".","/",".","/">>), NAME, DirA)
BackToRoot == Link(Some(<<"/","d","a","t","a","/">>), NAME, Root)
AFromC == Link(Some(<<".",".","/","a","/">>), NAME, DirA)
LinkF == Link(Some(<<"f",".","e","d","f">>), NAME, FileF)
LinkG == Link(Some(<<"g",".","e","d","f">>), NAME, FileG)

\* The servers of SpecCrawl: the index page of each directory path. /data/c/
\* is linked and missing on the first; the directories of each link to each
\* other in a cycle.
Servers ==
    { [x \in {Root.path, DirA.path, DirB.path} |->
          CASE x = Root.path -> <<ParentLink(Url("/", TRUE, "")), SortLink(Root),
                                  LinkA, LinkC, LinkF>>
            [] x = DirA.path -> <<ParentLink(Root), LinkB, LinkG>>
            [] x = DirB.path -> <<BackToA, BackToRoot>>],
      [x \in {Root.path, DirA.path} |->
          CASE x = Root.path -> <<NoHref, LinkA, LinkA, LinkF>>
            [] x = DirA.path -> <<TopLink(DirA), BackToRoot, LinkG>>],
      [x \in {Root.path, DirA.path, DirB.path, DirC.path} |->
          CASE x = Root.path -> <<LinkA, LinkC, LinkF>>
            [] x = DirA.path -> <<LinkB, BackToRoot, LinkG>>
            [] x = DirB.path -> <<BackToA>>
            [] x = DirC.path -> <<AFromC, BackToRoot>>] }

\* return from crawl_index: to the caller's loop, or to main
ReturnFromCrawl(fr) ==
    /\ frames' = fr
    /\ current_url' = None
    /\ pc' = IF fr = <<>> THEN "crawl_done" ELSE "crawl_links"

\* lines 131-136
StartCrawl ==
    /\ pc = "crawl_main"
    /\ visited' = {}
    /\ current_url' = Some(Root)
    /\ pc' = "crawl_enter"
    /\ UNCHANGED <<parser, edf, dl, frames, pages, fetched, handled>>

\* lines 88-91
EnterCrawl ==
    /\ pc = "crawl_enter"
    /\ LET u == sanitize_url(current_url[1])
       IN  IF u \in visited
           THEN ReturnFromCrawl(frames) /\ visited' = visited
           ELSE /\ visited' = visited \cup {u}
                /\ current_url' = Some(u)
                /\ pc' = "crawl_fetch"
                /\ frames' = frames
    /\ UNCHANGED <<parser, edf, dl, pages, fetched, handled>>

\* lines 92-97 with the exception of the fetch left to end the crawl
Fetch_error_aborts ==
    /\ pc = "crawl_fetch"
    /\ LET u == current_url[1]
       IN  \E ok \in {b \in BOOLEAN : b => u.path \in DOMAIN pages} :
               /\ fetched' = Append(fetched, [url |-> u, ok |-> ok])
               /\ IF ok
                  THEN /\ frames' = Append(frames, [url |-> u, links |-> pages[u.path],
                                                    i |-> 1])
                       /\ current_url' = None
                       /\ pc' = "crawl_links"
                  ELSE ReturnFromCrawl(<<>>)
    /\ UNCHANGED <<parser, edf, dl, visited, pages, handled>>

\* lines 92-100: session.get and raise_for_status, which fail for a page the
\* server does not hold and may fail for any other
Fetch ==
    /\ pc = "crawl_fetch"
    /\ LET u == current_url[1]
       IN  \E ok \in {b \in BOOLEAN : b => u.path \in DOMAIN pages} :
               /\ fetched' = Append(fetched, [url |-> u, ok |-> ok])
               /\ IF ok
                  THEN /\ frames' = Append(frames, [url |-> u, links |-> pages[u.path],
                                                    i |-> 1])
                       /\ current_url' = None
                       /\ pc' = "crawl_links"
                  ELSE ReturnFromCrawl(frames)
    /\ UNCHANGED <<parser, edf, dl, visited, pages, handled>>

\* lines 101-129: one link of the innermost call; download_file returns
\* whatever happens to the download (lines 58-85)
NextLink ==
    /\ pc = "crawl_links"
    /\ LET top == frames[Len(frames)]
       IN  /\ top.i <= Len(top.links)
           /\ LET a == top.links[top.i]
                  full == sanitize_url(a.full)
                  rest == [frames EXCEPT ![Len(frames)].i = @ + 1]
              IN  /\ frames' = rest
                  /\ IF Skipped(a)
                     THEN UNCHANGED <<pc, current_url, handled>>
                     ELSE /\ handled' = handled \cup {<<top.url, top.i>>}
                          /\ IF IsDirectory(a, full)
                             THEN current_url' = Some(full) /\ pc' = "crawl_enter"
                             ELSE UNCHANGED <<pc, current_url>>
    /\ UNCHANGED <<parser, edf, dl, visited, pages, fetched>>

\* line 101: the loop over links ends and crawl_index returns
EndOfLinks ==
    /\ pc = "crawl_links"
    /\ frames[Len(frames)].i > Len(frames[Len(frames)].links)
    /\ ReturnFromCrawl(SubSeq(frames, 1, Len(frames) - 1))
    /\ UNCHANGED <<parser, edf, dl, visited, pages, fetched, handled>>

InitCrawl ==
    /\ pc = "crawl_main"
    /\ fs_all = EmptyDict
    /\ per_file_block6_channel_fs = <<>>
    /\ per_file_labels = EmptyDict
    /\ electrodes_all = EmptyDict
    /\ FS_NOT_SAME = 0
    /\ FS_NOT_SAME_LIST = <<>>
    /\ ELECTRODES_NOT_UNIQUE = 0
    /\ ELECTRODES_NOT_UNIQUE_LIST = <<>>
    /\ current_fp = None
    /\ in_block6 = FALSE
    /\ collecting_chan_labels = FALSE
    /\ pending_chan_labels = <<>>
    /\ line = None
    /\ summary = None
    /\ n_lines = 0
    /\ obs = EmptyDict
    /\ deferred_list = <<>>
    /\ qual_lines = 0
    /\ fs_appended = 0
    /\ lst = <<>>
    /\ result = None
    /\ file = <<>>
    /\ EdfIdle
    /\ DownloadIdle
    /\ visited = {}
    /\ frames = <<>>
    /\ current_url = None
    /\ pages \in Servers
    /\ fetched = <<>>
    /\ handled = {}

NextCrawl == StartCrawl \/ EnterCrawl \/ Fetch \/ NextLink \/ EndOfLinks

\* main runs to its end: a step is taken whenever one is possible
SpecCrawl == InitCrawl /\ [][NextCrawl]_vars /\ WF_vars(NextCrawl)

\* ------------------------------------------------------------ properties

\* Two tokens equal after trim and uppercase
SameLabelTwice(t) ==
    \E i, j \in 1..Len(t) : i < j /\ upper(strip(t[i])) = upper(strip(t[j]))

InSeq(x, q) == \E i \in 1..Len(q) : q[i] = x

NoRepeats(q) == \A i, j \in 1..Len(q) : q[i] = q[j] => i = j

RECURSIVE SumValues(_)
SumValues(c) ==
    IF DOMAIN c = {} THEN 0
    ELSE LET k == CHOOSE k \in DOMAIN c : TRUE
         IN  c[k] + SumValues([x \in DOMAIN c \ {k} |-> c[x]])

\* The record-start lines read so far
StartsSeen == SumValues([k \in DOMAIN obs |-> obs[k].starts])

\* C1: the duplicate check made at each chan_trans_type line gives, at the
\* end of the parse, the same count and the same list as one check per
\* record made at the record's boundary over all its bracketed tokens.
C1_ImmediateEqualsDeferred ==
    pc = "done" =>
        /\ ELECTRODES_NOT_UNIQUE_LIST = deferred_list
        /\ ELECTRODES_NOT_UNIQUE = Len(deferred_list)

\* C2: a step in which the active record stops being active (a record-start
\* line is read, or the input ends) puts the tokens pending at that moment
\* through the duplicate check, whether or not labels were still being
\* collected, and empties them; in any other step of the loop the record
\* stays active.
C2_FinalizedAtBoundary ==
    [][ (pc = "loop" /\ current_fp # None) =>
          LET flag == IF SameLabelTwice(pending_chan_labels) THEN <<Key>> ELSE <<>>
          IN  IF pc' = "post" \/ StartsSeen' = StartsSeen + 1
              THEN /\ pending_chan_labels' = <<>>
                   /\ ELECTRODES_NOT_UNIQUE_LIST' = ELECTRODES_NOT_UNIQUE_LIST \o flag
                   /\ ELECTRODES_NOT_UNIQUE' = ELECTRODES_NOT_UNIQUE + Len(flag)
                   /\ pc' \in {"loop", "post"}
              ELSE current_fp' = current_fp /\ pc' = "loop" ]_vars

\* The input has ended while the only chan_labels section of the only
\* record was still being collected, and the record was flagged.
C2_Witness ==
    /\ pc = "post"
    /\ collecting_chan_labels
    /\ StartsSeen = 1
    /\ obs[Key].sections = 1
    /\ pending_chan_labels = <<>>
    /\ ELECTRODES_NOT_UNIQUE_LIST = <<Key>>

\* C3: at the end of the parse, a record whose key occurs once and that has
\* one chan_labels section is in ELECTRODES_NOT_UNIQUE_LIST if and only if
\* two of its collected tokens are equal after trim and uppercase.
C3_FlaggedIffDuplicateLabel ==
    pc = "done" =>
        \A k \in DOMAIN obs :
            (obs[k].starts = 1 /\ obs[k].sections = 1) =>
                (InSeq(k, ELECTRODES_NOT_UNIQUE_LIST) <=> SameLabelTwice(obs[k].tokens))

\* Fp1, FP1, O2 has flagged fileA.rec and FP1, FP2 has not flagged fileB.rec
C3_Witness ==
    /\ pc = "done"
    /\ DOMAIN obs = {FileA, FileB}
    /\ obs[FileA].starts = 1 /\ obs[FileA].sections = 1
    /\ obs[FileB].starts = 1 /\ obs[FileB].sections = 1
    /\ obs[FileA].tokens = <<TokFp1, TokFP1, TokO2>>
    /\ obs[FileB].tokens = <<TokFP1, TokFP2>>
    /\ ELECTRODES_NOT_UNIQUE_LIST = <<FileA>>

\* C4: no record key appears more than once in ELECTRODES_NOT_UNIQUE_LIST,
\* and none more than once in FS_NOT_SAME_LIST.
C4_ListsAreSets ==
    NoRepeats(ELECTRODES_NOT_UNIQUE_LIST) /\ NoRepeats(FS_NOT_SAME_LIST)

\* C5: in every state, and in the summary, each count is the length of its
\* list.
C5_CountsAreLengths ==
    /\ ELECTRODES_NOT_UNIQUE = Len(ELECTRODES_NOT_UNIQUE_LIST)
    /\ FS_NOT_SAME = Len(FS_NOT_SAME_LIST)
    /\ summary # None =>
          /\ summary[1].ELECTRODES_NOT_UNIQUE = Len(summary[1].ELECTRODES_NOT_UNIQUE_LIST)
          /\ summary[1].FS_NOT_SAME = Len(summary[1].FS_NOT_SAME_LIST)

\* Both lists are non-empty in the summary
C5_Witness ==
    /\ summary # None
    /\ summary[1].ELECTRODES_NOT_UNIQUE = 1
    /\ summary[1].FS_NOT_SAME = 1

\* C6: at the end of the parse, a record whose key occurs once is in
\* FS_NOT_SAME_LIST if and only if its qualifying block-6 frequencies are
\* not empty and one of them differs from the first by more than 1e-6.
C6_FlaggedIffFrequencyDiffers ==
    pc = "done" =>
        \A k \in DOMAIN obs :
            obs[k].starts = 1 =>
                LET q == obs[k].quals
                IN  InSeq(k, FS_NOT_SAME_LIST) <=>
                        (q # <<>> /\ \E i \in 1..Len(q) : Abs(q[i] - q[1]) > TOL)

\* 100.0, 100.0000005, 100.01: the second is within the tolerance of the
\* first, the third is not, and the record is flagged
C6_Witness ==
    /\ pc = "done"
    /\ DOMAIN obs = {FileA}
    /\ obs[FileA].starts = 1
    /\ obs[FileA].quals = <<Hz100, Hz100_5e7, Hz100_01>>
    /\ FS_NOT_SAME_LIST = <<FileA>>


AllPairsWithin(l, tol) == \A i, j \in 1..Len(l) : ~(Abs(l[i] - l[j]) > tol)

\* C7 as claimed: on a non-empty list floats_all_equal is true if and only
\* if every pair of elements differs by at most 1e-6.
C7_FirstEqualsPairwise ==
    (result # None /\ lst # <<>>) => (result[1] <=> AllPairsWithin(lst, TOL))

\* C7 as amended: on a non-empty list floats_all_equal is true if and only
\* if every element differs from the first by at most 1e-6; it is true of
\* every list whose pairs all differ by at most 1e-6, and when it is true
\* every pair differs by at most 2e-6.
C7_FirstElementTolerance ==
    (result # None /\ lst # <<>>) =>
        /\ result[1] <=> \A i \in 1..Len(lst) : ~(Abs(lst[i] - lst[1]) > TOL)
        /\ AllPairsWithin(lst, TOL) => result[1]
        /\ result[1] => AllPairsWithin(lst, 2 * TOL)

\* A list found all equal of which two elements are more than 1e-6 apart
C7_Witness ==
    /\ result = Some(TRUE)
    /\ Len(lst) = MaxFloats
    /\ ~AllPairsWithin(lst, TOL)

\* A labeled channel line qualifies when, the block gate being taken after
\* the line's own classification, the three conditions hold.
ThreeHold(ln, gate) == gate /\ re_eeg(ln.label) /\ ~re_exclude(ln.label)

\* The step reads a labeled channel line
ReadsLabeledChannel == n_lines' = n_lines + 1 /\ line'[1].head = "chlabel"

\* The effect of a qualifying labeled channel line
OneFrequencyOneCount(ln) ==
    LET norm == upper(strip(ln.label))
        before == DictGet(per_file_block6_channel_fs, Key)
    IN  /\ per_file_block6_channel_fs' =
               DictPut(per_file_block6_channel_fs, Key, Append(before, ln.num))
        /\ DOMAIN electrodes_all' = DOMAIN electrodes_all \cup {norm}
        /\ \A l \in DOMAIN electrodes_all' :
               electrodes_all'[l] =
                   (IF l \in DOMAIN electrodes_all THEN electrodes_all[l] ELSE 0)
                   + (IF l = norm THEN 1 ELSE 0)
        /\ UNCHANGED <<pc, fs_all, per_file_labels, FS_NOT_SAME, FS_NOT_SAME_LIST,
                       ELECTRODES_NOT_UNIQUE, ELECTRODES_NOT_UNIQUE_LIST, current_fp,
                       collecting_chan_labels, pending_chan_labels, summary>>

\* C8 as claimed: a labeled channel line changes the program's state only
\* when the three conditions hold, and then appends one frequency and
\* counts the normalized label once.
C8_ChangesOnlyWhenQualifying ==
    [][ ReadsLabeledChannel =>
            IF current_fp # None /\ ThreeHold(line'[1], in_block6')
            THEN OneFrequencyOneCount(line'[1])
            ELSE prog' = prog ]_vars

\* C8 as amended: apart from the block gate, which the line's own block
\* classification sets when the line holds a marker phrase, a labeled
\* channel line changes the program's state only when the three conditions
\* hold, and then appends one frequency and counts the normalized label once.
C8_OnlyQualifyingContributes ==
    [][ ReadsLabeledChannel =>
            /\ in_block6' = (in_block6 \/ (current_fp # None /\ line'[1].marker))
            /\ IF current_fp # None /\ ThreeHold(line'[1], in_block6')
               THEN OneFrequencyOneCount(line'[1])
               ELSE UNCHANGED <<pc, fs_all, per_file_block6_channel_fs, per_file_labels,
                               electrodes_all, FS_NOT_SAME, FS_NOT_SAME_LIST,
                               ELECTRODES_NOT_UNIQUE, ELECTRODES_NOT_UNIQUE_LIST,
                               current_fp, collecting_chan_labels,
                               pending_chan_labels, summary>> ]_vars

\* In block 6 the excluded label EEG RESP-REF has just been read, after a
\* qualifying line: one frequency and one label are counted, not two.
C8_Witness ==
    /\ pc = "loop"
    /\ n_lines = 4
    /\ current_fp = Some(FileA)
    /\ in_block6
    /\ line = Some(ChLabelLine(Hz250, LabelResp, FALSE))
    /\ DictGet(per_file_block6_channel_fs, FileA) = <<Hz100_5e7>>
    /\ electrodes_all = Put(EmptyDict, <<"E","E","G"," ","O","2","-","R","E","F">>, 1)

\* C9: the values of electrodes_all add up to the number of qualifying
\* labeled channel lines read, which is the number of frequencies appended.
C9_Conservation ==
    /\ SumValues(electrodes_all) = qual_lines
    /\ fs_appended = qual_lines

\* A key has started a second time after two qualifying lines with the same
\* label: its frequency list is empty again, the histogram holds both.
C9_Witness ==
    /\ current_fp = Some(FileA)
    /\ obs[FileA].starts = 2
    /\ qual_lines = 2
    /\ DictGet(per_file_block6_channel_fs, FileA) = <<>>
    /\ \E l \in DOMAIN electrodes_all : electrodes_all[l] = 2

\* C10: while a record is active and no hdr_sample_frequency line has been
\* read since its record-start line, fs_all holds None for its key.
C10_NoHeaderMeansNone ==
    (pc \in {"loop", "post"} /\ current_fp # None /\ obs[Key].hdr = 0) =>
        (Key \in DOMAIN fs_all /\ fs_all[Key] = None)

\* ------------------------------------------------------------ C11

ReadsHeader ==
    /\ n_lines' = n_lines + 1
    /\ line'[1].head = "hdr"
    /\ current_fp # None

\* C11 as claimed: while a record is active a header frequency line writes
\* its number to fs_all under the current key, over any earlier value, and
\* changes nothing else of the program's state.
C11_HeaderChangesOnlyFsAll ==
    [][ ReadsHeader =>
            /\ fs_all' = [fs_all EXCEPT ![Key] = Some(line'[1].num)]
            /\ UNCHANGED <<pc, per_file_block6_channel_fs, per_file_labels,
                           electrodes_all, FS_NOT_SAME, FS_NOT_SAME_LIST,
                           ELECTRODES_NOT_UNIQUE, ELECTRODES_NOT_UNIQUE_LIST,
                           current_fp, in_block6, collecting_chan_labels,
                           pending_chan_labels, summary>> ]_vars

\* C11 as amended: while a record is active a header frequency line writes
\* its number to fs_all under the current key, over any earlier value,
\* whatever the block gate and the collecting flag are; apart from the block
\* gate, which the line's own block classification sets when the line holds
\* a marker phrase, it changes nothing else: the block-6 frequency lists,
\* the histogram, the pending tokens and the collecting flag stay as they are.
C11_HeaderSetsFsAll ==
    [][ ReadsHeader =>
            /\ fs_all' = [fs_all EXCEPT ![Key] = Some(line'[1].num)]
            /\ in_block6' = (in_block6 \/ line'[1].marker)
            /\ UNCHANGED <<pc, per_file_block6_channel_fs, per_file_labels,
                           electrodes_all, FS_NOT_SAME, FS_NOT_SAME_LIST,
                           ELECTRODES_NOT_UNIQUE, ELECTRODES_NOT_UNIQUE_LIST,
                           current_fp, collecting_chan_labels,
                           pending_chan_labels, summary>> ]_vars

\* Outside block 6, while labels are being collected, the record's second
\* header line has replaced 250.0 by 256.0 and left the pending tokens alone.
C11_Witness ==
    /\ pc = "loop"
    /\ line # None
    /\ line[1].head = "hdr"
    /\ current_fp = Some(FileA)
    /\ obs[FileA].hdr = 2
    /\ fs_all[FileA] = Some(Hz256)
    /\ ~in_block6
    /\ collecting_chan_labels
    /\ pending_chan_labels = <<TokFP1, TokFP2>>

\* ------------------------------------------------------------ C12

ReadsRecordStart ==
    /\ n_lines' = n_lines + 1
    /\ line'[1].head = "file"

\* C12: the keys of fs_all are at every point exactly the keys of the
\* record-start lines read so far; a record-start line registers its key at
\* once, with no frequency when the key is new, and no other step adds or
\* removes a key.
C12_KeysAreRecordsStarted ==
    /\ [](DOMAIN fs_all = DOMAIN obs)
    /\ [][ IF ReadsRecordStart
           THEN /\ DOMAIN fs_all' = DOMAIN fs_all \cup {line'[1].key}
                /\ line'[1].key \notin DOMAIN fs_all => fs_all'[line'[1].key] = None
           ELSE DOMAIN fs_all' = DOMAIN fs_all ]_vars

\* fileB.rec has just been registered with no frequency line read for it,
\* beside fileA.rec, whose header line came earlier.
C12_Witness ==
    /\ pc = "loop"
    /\ line # None
    /\ line[1].head = "file"
    /\ current_fp = Some(FileB)
    /\ DOMAIN fs_all = {FileA, FileB}
    /\ fs_all[FileA] = Some(Hz250)
    /\ fs_all[FileB] = None
    /\ obs[FileB].hdr = 0

\* ------------------------------------------------------------ C13

\* C13: when a key starts a record again, what the earlier record of the key
\* came to is still in the final summary: the key is on FS_NOT_SAME_LIST
\* when the earlier record's block-6 frequencies were not all equal, and on
\* ELECTRODES_NOT_UNIQUE_LIST when the earlier record was flagged for a
\* repeated label, whatever the later record holds.
C13_FirstOccurrenceKept ==
    pc = "done" =>
        \A k \in DOMAIN obs :
            /\ obs[k].fs_differed => InSeq(k, FS_NOT_SAME_LIST)
            /\ obs[k].dup_flagged => InSeq(k, ELECTRODES_NOT_UNIQUE_LIST)

\* ------------------------------------------------------------ C14

\* C14: per-record data is kept for the active record only: a block-6
\* frequency list or a list of label tokens that is not empty belongs to
\* the record being read, and none is left once the last record is
\* finalized.
C14_OnlyActiveRecordRetained ==
    /\ \A i \in 1..Len(per_file_block6_channel_fs) :
           per_file_block6_channel_fs[i].fs # <<>> =>
               pc = "loop" /\ current_fp = Some(per_file_block6_channel_fs[i].fp)
    /\ \A k \in DOMAIN per_file_labels :
           per_file_labels[k] # <<>> =>
               pc = "loop" /\ current_fp = Some(k)

\* ------------------------------------------------------------ C15

DefaultSummary ==
    [fs_all |-> EmptyDict,
     FS_NOT_SAME |-> 0,
     FS_NOT_SAME_LIST |-> <<>>,
     electrodes_all |-> EmptyDict,
     ELECTRODES_NOT_UNIQUE |-> 0,
     ELECTRODES_NOT_UNIQUE_LIST |-> <<>>]

\* C15: a failed open is not fatal. Opening the input either enters the
\* loop or, when the file is absent, goes past it with no line read; from
\* there the summary step can always be taken, and a run that read no line
\* completes with the default summary: fs_all and electrodes_all empty, both
\* counts 0, both lists empty.
C15_AbsentInputDefaultSummary ==
    /\ [][ pc = "open" => pc' \in {"loop", "post"} /\ n_lines' = 0 ]_vars
    /\ [](pc = "post" => ENABLED Summarize)
    /\ []((pc = "done" /\ n_lines = 0) => summary = Some(DefaultSummary))

\* The run has completed without reading a line
C15_Witness ==
    /\ pc = "done"
    /\ n_lines = 0
    /\ line = None
    /\ summary = Some(DefaultSummary)
    /\ fs_all = EmptyDict

\* ------------------------------------------------------------ C16

\* The lines of the file that are labeled channel lines with a label other
\* than the excluded EEG RESP-REF
Counted(f) == {i \in 1..Len(f) : f[i].head = "chlabel" /\ f[i].label # LabelResp}

ScenarioDone == pc = "done" /\ n_lines = Len(file)

\* C16 as claimed: the scenario's summary has exactly the two keys in fs_all,
\* FS_NOT_SAME_LIST is exactly <<fileB.rec>>, and electrodes_all holds only
\* the two non-excluded labels of record 1.
C16_ScenarioOnlyRecordOneLabels ==
    ScenarioDone =>
        /\ DOMAIN summary[1].fs_all = {FileA, FileB}
        /\ summary[1].FS_NOT_SAME_LIST = <<FileB>>
        /\ DOMAIN summary[1].electrodes_all =
               {upper(strip(LabelFp1)), upper(strip(LabelLowO2))}

\* C16 as amended: the scenario's summary has exactly the two keys in
\* fs_all, FS_NOT_SAME_LIST is exactly <<fileB.rec>>, and electrodes_all
\* counts, once per line, the normalized label of every non-excluded channel
\* line of both records: the excluded label is absent, and the labels are
\* the two of record 1 exactly when record 2 repeats them.
C16_Scenario ==
    ScenarioDone =>
        /\ DOMAIN summary[1].fs_all = {FileA, FileB}
        /\ summary[1].FS_NOT_SAME = 1
        /\ summary[1].FS_NOT_SAME_LIST = <<FileB>>
        /\ DOMAIN summary[1].electrodes_all =
               {upper(strip(file[i].label)) : i \in Counted(file)}
        /\ \A n \in DOMAIN summary[1].electrodes_all :
               summary[1].electrodes_all[n] =
                   Cardinality({i \in Counted(file) : upper(strip(file[i].label)) = n})
        /\ upper(strip(LabelResp)) \notin DOMAIN summary[1].electrodes_all
        /\ {upper(strip(LabelFp1)), upper(strip(LabelLowO2))}
               \subseteq DOMAIN summary[1].electrodes_all

\* The scenario has run to its summary on a file whose record 2 carries the
\* label ECG EKG-REF, which record 1 does not have
C16_Witness ==
    /\ ScenarioDone
    /\ \E i \in 1..Len(file) : file[i].label = LabelEkg
    /\ summary[1].FS_NOT_SAME_LIST = <<FileB>>
    /\ Cardinality(DOMAIN summary[1].electrodes_all) = 3
    /\ summary[1].electrodes_all[upper(strip(LabelFp1))] = 2

\* ------------------------------------------------------------ C20

ReadsBeforeFirstRecord ==
    /\ current_fp = None
    /\ n_lines' = n_lines + 1
    /\ line'[1].head # "file"

\* C20: a line read before the first record-start line is a no-op. While
\* current_fp is None every line that is not a record-start line leaves
\* the program's state as it is, so that until the first record starts
\* fs_all, the histogram and the anomaly lists are empty, the block gate and
\* the collecting flag are off and no token is pending.
C20_NoOpBeforeFirstRecord ==
    /\ [][ ReadsBeforeFirstRecord => prog' = prog ]_vars
    /\ []((pc = "loop" /\ current_fp = None) =>
             /\ fs_all = EmptyDict
             /\ electrodes_all = EmptyDict
             /\ per_file_block6_channel_fs = <<>>
             /\ FS_NOT_SAME_LIST = <<>>
             /\ ELECTRODES_NOT_UNIQUE_LIST = <<>>
             /\ ~in_block6
             /\ ~collecting_chan_labels
             /\ pending_chan_labels = <<>>)

\* Three lines have been read with no record started, the last one a line
\* with a marker phrase: the block gate is still off
C20_Witness ==
    /\ pc = "loop"
    /\ current_fp = None
    /\ n_lines = 3
    /\ line[1].head = "text"
    /\ line[1].marker
    /\ ~in_block6
    /\ fs_all = EmptyDict

\* ------------------------------------------------------------ C18

RowsOf(q) == SelectSeq(q, LAMBDA f : f.row)

\* C18: with SELECTIVE_ELECTRODES true a record yields a CSV row if and only
\* if the channel names collected for it up to its flush hold every one of
\* the 16 target electrodes: each flush adds a row exactly then, and the rows
\* of the CSV after the header are, in order, those of the records flushed
\* with all 16.
C18_RowIffAllTargets ==
    /\ \A i \in 1..Len(flushes) :
           flushes[i].row <=> TARGET_ELECTRODES \subseteq flushes[i].chan_names
    /\ pc \in {"edf_loop", "edf_done"} =>
           /\ Len(csv_rows) = 1 + Len(RowsOf(flushes))
           /\ \A i \in 1..Len(RowsOf(flushes)) :
                  csv_rows[i + 1][1] = Some(RowsOf(flushes)[i].path)
           /\ written = Len(RowsOf(flushes))
           /\ scanned = Len(flushes) + (IF current # None /\ pc = "edf_loop" THEN 1 ELSE 0)

\* The stream has ended with two records flushed: one with 15 of the 16
\* names and no row, one with all 16 and a row
C18_Witness ==
    /\ pc = "edf_done"
    /\ Len(flushes) = 2
    /\ \E i \in 1..2 :
           /\ ~flushes[i].row
           /\ Cardinality(flushes[i].chan_names \cap TARGET_ELECTRODES) = 15
    /\ \E i \in 1..2 : flushes[i].row
    /\ Len(csv_rows) = 2

\* ------------------------------------------------------------ C19

\* a content that is the start of the stream and not all of it
Partial(content) ==
    /\ content # Written(remote)
    /\ \E n \in 0..Len(Written(remote)) : content = SubSeq(Written(remote), 1, n)

\* C19: download_file never leaves a partly written file at local_path. The
\* content of local_path changes in one step only, the replace, taken after
\* the stream has ended, with the whole stream in local_path + ".part"; when
\* a call has failed or was cancelled, local_path is absent or holds what it
\* held before the call; and a call returns without downloading only when
\* local_path holds a file of the expected size, never a partial one.
C19_NoPartialFileAtLocalPath ==
    /\ []((pc \in Running \cup {"dl_error", "dl_cancelled"}) =>
              disk[local_path] = previous)
    /\ [](disk[local_path] # None =>
              (disk[local_path] = previous \/ disk[local_path] = Some(Written(remote))))
    /\ [][ disk'[local_path] # disk[local_path] =>
               /\ pc = "dl_replace"
               /\ response = Some(<<>>)
               /\ disk[tmp] = Some(Written(remote))
               /\ disk'[local_path] = Some(Written(remote)) ]_vars
    /\ [][ (pc = "dl_call" /\ pc' = "dl_returned") =>
               /\ disk[local_path] # None
               /\ ~Partial(disk[local_path][1])
               /\ GetSize(disk[local_path][1]) = GetSize(Written(remote)) ]_vars

\* The second call was cancelled after one chunk of three: local_path still
\* holds the old file and the chunk is in local_path + ".part"
C19_Witness ==
    /\ pc = "dl_cancelled"
    /\ attempts = 2
    /\ remote = <<"a", "b", "c">>
    /\ response = Some(<<"b", "c">>)
    /\ disk[tmp] = Some(<<"a">>)
    /\ previous = Some(<<"o", "l", "d">>)
    /\ disk[local_path] = previous

\* ------------------------------------------------------------ C21

\* The step reads a line of the active record that is not a record-start line
ReadsInRecord ==
    /\ n_lines' = n_lines + 1
    /\ line'[1].head # "file"
    /\ current_fp # None

IsBlock6Marker(ln) == ln.marker \/ (ln.head = "block" /\ ln.num = 6)

IsOtherBlockMarker(ln) == ln.head = "block" /\ ln.num # 6 /\ ~ln.marker

\* The line appends one frequency to the active record's block-6 list
Contributes ==
    /\ Len(DictGet(per_file_block6_channel_fs', Key))
           = Len(DictGet(per_file_block6_channel_fs, Key)) + 1
    /\ fs_appended' = fs_appended + 1

\* C21: the block gate is reset by every record-start line and otherwise
\* persists. A record-start line closes the gate; a line of the record
\* opens it when it is a block-6 marker ("Block 6:" or a marker phrase),
\* closes it when it is a "Block N:" line with N other than 6, and leaves
\* it alone otherwise; and a labeled channel line whose label qualifies
\* contributes exactly when the gate so kept is open, that is when the most
\* recent block marker since the record's start is a block-6 marker.
C21_GateFollowsLastMarker ==
    [][ /\ ReadsRecordStart => ~in_block6'
        /\ ReadsInRecord =>
               /\ in_block6' = (IF IsBlock6Marker(line'[1]) THEN TRUE
                                ELSE IF IsOtherBlockMarker(line'[1]) THEN FALSE
                                ELSE in_block6)
               /\ (/\ line'[1].head = "chlabel"
                   /\ re_eeg(line'[1].label)
                   /\ ~re_exclude(line'[1].label))
                      => (Contributes <=> in_block6')
               /\ ~Contributes => per_file_block6_channel_fs' = per_file_block6_channel_fs
      ]_vars

\* fileA.rec ended inside block 6 with a frequency counted; in fileB.rec a
\* qualifying channel line, read before any marker, has contributed nothing
C21_Witness ==
    /\ pc = "loop"
    /\ current_fp = Some(FileB)
    /\ DOMAIN obs = {FileA, FileB}
    /\ line[1].head = "chlabel"
    /\ ~line[1].marker
    /\ re_eeg(line[1].label)
    /\ obs[FileB].quals = <<>>
    /\ DictGet(per_file_block6_channel_fs, FileB) = <<>>
    /\ DictGet(per_file_block6_channel_fs, FileA) # <<>>
    /\ ~in_block6

\* ------------------------------------------------------------ C22

\* C22: on every line of an active record that is not a record-start line,
\* block classification runs before any extractor, and a marker phrase on
\* the line opens the gate whatever it was and whatever else the line is,
\* a "Block N:" line with N other than 6 included: a labeled channel line
\* that holds a marker phrase and a qualifying label contributes even when
\* the gate was closed before it.
C22_MarkerPhraseOpensGate ==
    [][ (ReadsInRecord /\ line'[1].marker) =>
            /\ in_block6'
            /\ (/\ line'[1].head = "chlabel"
                /\ re_eeg(line'[1].label)
                /\ ~re_exclude(line'[1].label)) => Contributes ]_vars

\* A "Block 5:" line that holds a marker phrase has just opened the gate,
\* which the "Block 5:" line before it had closed
C22_Witness ==
    /\ pc = "loop"
    /\ current_fp # None
    /\ line = Some(BlockLine(5, TRUE))
    /\ in_block6
    /\ n_lines = 4

\* ------------------------------------------------------------ C23

LabelsUntouched ==
    UNCHANGED <<pending_chan_labels, collecting_chan_labels, per_file_labels,
                ELECTRODES_NOT_UNIQUE, ELECTRODES_NOT_UNIQUE_LIST>>

\* What the extractors ahead of the label collection leave alone: a header
\* line writes no frequency list and no count, a channel line writes no
\* fs_all, and none of them touches the pending tokens or the flag
FirstMatchOnly(ln) ==
    /\ ln.head \in {"hdr", "chlabel", "chan"} => LabelsUntouched
    /\ ln.head = "hdr" => UNCHANGED <<per_file_block6_channel_fs, electrodes_all>>
    /\ ln.head \in {"chlabel", "chan", "chanlabels"} => fs_all' = fs_all
    /\ ln.head = "chanlabels" => UNCHANGED <<per_file_block6_channel_fs, electrodes_all>>

\* C23 as claimed: each line of an active record triggers at most one
\* extractor, so a header line or a channel line never appends tokens and
\* never clears the collecting flag, and an unlabeled channel line changes
\* no state at all.
C23_UnlabeledChangesNothing ==
    [][ ReadsInRecord =>
            /\ FirstMatchOnly(line'[1])
            /\ line'[1].head = "chan" => prog' = prog ]_vars

\* C23 as amended: each line of an active record triggers at most one
\* extractor, so a header line or a channel line never appends tokens and
\* never clears the collecting flag, and an unlabeled channel line changes
\* no state apart from the block gate, which the line's own block
\* classification sets when the line holds a marker phrase.
C23_FirstMatchWins ==
    [][ ReadsInRecord =>
            /\ FirstMatchOnly(line'[1])
            /\ line'[1].head = "chan" =>
                   /\ in_block6' = (in_block6 \/ line'[1].marker)
                   /\ UNCHANGED <<pc, fs_all, per_file_block6_channel_fs,
                                  per_file_labels, electrodes_all, FS_NOT_SAME,
                                  FS_NOT_SAME_LIST, ELECTRODES_NOT_UNIQUE,
                                  ELECTRODES_NOT_UNIQUE_LIST, current_fp,
                                  collecting_chan_labels, pending_chan_labels,
                                  summary>> ]_vars

\* While labels are being collected an unlabeled channel line with a
\* bracketed token has been read: the two pending tokens are as they were
C23_Witness ==
    /\ pc = "loop"
    /\ current_fp # None
    /\ line = Some(WithBrackets(ChanLine(Hz250), <<TokO2>>))
    /\ collecting_chan_labels
    /\ pending_chan_labels = <<TokFP1, TokFP2>>
    /\ n_lines = 3

\* ------------------------------------------------------------ C24

C25_HistogramAdditive ==
    [][ /\ \A l \in DOMAIN electrodes_all :
               /\ l \in DOMAIN electrodes_all'
               /\ electrodes_all'[l] >= electrodes_all[l]
        /\ ReadsRecordStart => electrodes_all' = electrodes_all
      ]_vars

\* fileA.rec has started a second time after two labelled channel lines of
\* its first occurrence were counted under one label: the count is still 2
C25_Witness ==
    /\ pc = "loop"
    /\ line = Some(FileLine(FileA))
    /\ obs[FileA].starts = 2
    /\ n_lines = 5
    /\ DOMAIN electrodes_all = {normalize_label_preserve(LabelFp1)}
    /\ electrodes_all[normalize_label_preserve(LabelFp1)] = 2

\* ------------------------------------------------------------ C26

ReadsStreamLine == edf_lines' = edf_lines + 1

StreamEnds == pc \in {"edf_loop", "plain_loop"} /\ pc' \in {"edf_done", "plain_done"}

\* the name a script keeps for a record
NameOf(cur) == IF "edf" \in DOMAIN cur THEN cur.edf ELSE cur.path

NameKept(c) == IF pc = "plain_loop" THEN basename(c.path) ELSE c.path

Pending == IF current = None THEN <<>> ELSE <<NameOf(current[1])>>

FlushedNames == [i \in 1..Len(flushes) |-> flushes[i].path]

\* C26: in process_stream and process_stream_plain every .edf occurrence
\* starts a record, several on one line starting several, and every record
\* started is flushed exactly once and in start order: when the next record
\* starts or at the end of the input, and at no other step. In
\* process_stream_plain every flush writes a row, so written equals scanned
\* on return; in process_stream a flush writes at most one row and written
\* is at most scanned.
C26_FlushedOnceInOrder ==
    /\ [](pc \in {"edf_loop", "plain_loop"} => Len(flushes) + Len(Pending) = scanned)
    /\ [](pc \in {"edf_done", "plain_done"} => Len(flushes) = scanned)
    /\ [](pc \in {"plain_loop", "plain_done"} =>
              /\ written = Len(flushes)
              /\ Len(csv_rows) = 1 + written)
    /\ [](pc \in {"edf_loop", "edf_done"} =>
              /\ written = Cardinality({i \in 1..Len(flushes) : flushes[i].row})
              /\ Len(csv_rows) = 1 + written
              /\ written <= scanned)
    /\ [][ /\ ReadsStreamLine =>
                LET ln == line'[1]
                    started == Pending \o [i \in 1..Len(ln.edfs) |-> NameKept(ln.edfs[i])]
                IN  /\ scanned' = scanned + Len(ln.edfs)
                    /\ started # <<>> =>
                          /\ FlushedNames' = FlushedNames \o SubSeq(started, 1, Len(started) - 1)
                          /\ Pending' = <<started[Len(started)]>>
                    /\ started = <<>> => flushes' = flushes /\ current' = None
           /\ StreamEnds => /\ FlushedNames' = FlushedNames \o Pending
                            /\ scanned' = scanned
         ]_vars

\* process_stream_plain has returned after a line with two .edf names and a
\* line with one: three records, flushed in the order they started
C26_Witness ==
    /\ pc = "plain_done"
    /\ edf_lines = 2
    /\ scanned = 3
    /\ written = 3
    /\ FlushedNames = <<PathA, PathB, PathA>>
    /\ Len(csv_rows) = 4

\* ------------------------------------------------------------ C27

\* C27: in process_stream and process_stream_plain the age and the gender of
\* a record are the first ones found: a line that starts no record leaves an
\* age or gender that is set as it is, and a line that starts records leaves
\* the last of them with what that line alone gives, first what follows the
\* name and then the whole line, whatever the record before held.
C27_FirstFoundWins ==
    [][ (ReadsStreamLine /\ current' # None) =>
            LET ln == line'[1]
                new == current'[1]
            IN  IF ln.edfs = <<>>
                THEN LET cur == current[1]
                     IN  /\ cur.age # None => new.age = cur.age
                         /\ cur.gender # None => new.gender = cur.gender
                ELSE LET last == ln.edfs[Len(ln.edfs)]
                     IN  /\ new.age = IF last.age # None THEN last.age ELSE ln.age
                         /\ new.gender = IF last.gender # None THEN last.gender
                                         ELSE ln.gender
      ]_vars

\* process_stream has read an age of 45 and then a line with an age of 50
\* and a gender: the record keeps 45 and takes the gender
C27_Witness ==
    /\ pc = "edf_loop"
    /\ line = Some(AgeGenderLine(<<>>, Some("50"), Some("Female")))
    /\ current # None
    /\ current[1].age = Some("45")
    /\ current[1].gender = Some("Female")
    /\ scanned = 1

\* ------------------------------------------------------------ C28

SameDirectory(u, v) == u.path = v.path /\ u.slash = v.slash

\* the links of a page that line 101's loop does not pass over
LinksToFollow(path) == {i \in 1..Len(pages[path]) : ~Skipped(pages[path][i])}

\* C28: crawl_index fetches no directory URL twice in a run, the URL being
\* taken without query and fragment and entered in visited before its fetch;
\* the crawl ends on a server whose directory pages link to each other in a
\* cycle; and when it has ended every link to follow of every page fetched
\* has been crawled into or downloaded, the links after a directory whose
\* fetch failed included.
C28_FetchedOnceAndTerminates ==
    /\ [](\A i, j \in 1..Len(fetched) :
              i # j => ~SameDirectory(fetched[i].url, fetched[j].url))
    /\ [](\A i \in 1..Len(fetched) :
              fetched[i].url.rest = "" /\ fetched[i].url \in visited)
    /\ [](pc = "crawl_fetch" => current_url[1] \in visited)
    /\ [](pc = "crawl_done" =>
              \A k \in 1..Len(fetched) :
                  fetched[k].ok =>
                      \A i \in LinksToFollow(fetched[k].url.path) :
                          <<fetched[k].url, i>> \in handled)
    /\ <>(pc = "crawl_done")

\* The crawl has ended on the first server: /data/, /data/a/ and /data/a/b/
\* were fetched, /data/a/b/ links back to both, the fetch of /data/c/ failed
\* and f.edf, linked after it, was downloaded
C28_Witness ==
    /\ pc = "crawl_done"
    /\ fetched = << [url |-> Root, ok |-> TRUE], [url |-> DirA, ok |-> TRUE],
                    [url |-> DirB, ok |-> TRUE], [url |-> DirC, ok |-> FALSE] >>
    /\ {<<DirB, 1>>, <<DirB, 2>>, <<Root, 4>>, <<Root, 5>>} \subseteq handled
    /\ visited = {Root, DirA, DirB, DirC}

====
